---- MODULE Spec2Model ----
(***************************************************************************)
(* Entity simulation core of the 3D arena shooter: the object pools, the   *)
(* Bullet / Enemy / PowerUp / Player entities and the GameEngine3D loop.   *)
(*                                                                         *)
(* Conventions of the model                                                *)
(*  - all times are integers in milliseconds (the code mixes seconds and   *)
(*    milliseconds; dt = 0.3 s is 300 here, stateTimer = 1.5 s is 1500);   *)
(*  - an instance is a reference <<kind, n>>; its fields live in the       *)
(*    per-kind heaps enemies[n], bullets[n], powerUps[n];                  *)
(*  - geometry is abstracted: a bounding-volume overlap and a distance     *)
(*    class are inputs of the tick, chosen by the environment;             *)
(*  - Math.random() is an input drawn from a small set;                    *)
(*  - enemy score values are kept doubled (score2) because the `fast'      *)
(*    type scores 1.5.                                                     *)
(***************************************************************************)
EXTENDS Integers, Sequences, FiniteSets, TLC

VARIABLES
    gameState, score, currentWave, enemiesToSpawn, enemiesRemainingInWave,
    enemiesActive, waveCooldownTimer, assetsLoaded,
    activeEnemies, activeBullets, activePowerUps, pools, scene,
    enemies, bullets, powerUps, player, made, spawnTimers, startPc,
    weaponManager, playerController, last

vars == <<gameState, score, currentWave, enemiesToSpawn, enemiesRemainingInWave,
          enemiesActive, waveCooldownTimer, assetsLoaded,
          activeEnemies, activeBullets, activePowerUps, pools, scene,
          enemies, bullets, powerUps, player, made, spawnTimers, startPc,
          weaponManager, playerController, last>>

----------------------------------------------------------------------------
(* Bounds of the model *)

\* instances of each kind that are ever constructed
NumEnemies == 1
NumBullets == 1
NumPowerUps == 1
\* waves started in one run (currentWave is capped in the guard of the tick)
MaxWave == 2
\* spawn timers (setInterval handles) alive at the same time
MaxTimers == 1
\* times one spawn timer elapses while the game is in Playing
MaxSpawned == 2
\* length of one release/acquire round trip on a pool
MaxRoundTrip == 3
\* how far below zero an expired stateTimer is still counted
TimerDepth == 0
\* successful WeaponManager.fire() calls in one run
MaxShots == 3

----------------------------------------------------------------------------
(* Program constants *)

TITLE == "Title"
LOADING == "Loading"
PLAYING == "Playing"
PAUSED == "Paused"
GAME_OVER == "GameOver"
WAVE_TRANSITION == "WaveTransition"

IDLE == "idle"
CHASING == "chasing"
ATTACKING == "attacking"
DYING == "dying"
INACTIVE == "inactive"

waveCooldownDuration == 3000
invincibilityDuration == 300
DeathDelay == 1500
AttackPreArm == 500
maxLifespan == 3000
PlayerMaxHealth == 100
PlayerInvincibilityDuration == 1000
PlayerAttack == 10
PlayerShootCooldown == 200
EnemyBulletDamage == 5
PlayerBulletSpeed == 25
EnemyBulletSpeed == 18
\* heal amount and speed multiplier (in tenths) PowerUp.collect falls back to
PowerUpHealAmount == 25
PowerUpSpeedMultiplier == 15
BaseSpeedMultiplier == 10
\* shootingInterval of the shooter type: 2000, which updateFSM counts down in
\* seconds (shootTimer -= dt), i.e. 2 000 000 ms
ShootIntervalMs == 2000000
\* lower end at which a stateTimer that nothing reads any more stops being
\* counted (Chasing and Attacking decrement it without bound); every test of
\* a stateTimer is `<= 0'
TimerFloor == 0 - TimerDepth

Null == <<"null", 0>>

PoolNames == {"enemies", "bullets", "powerUps"}

\* GameEngine3D.enemyTypes
enemyTypes ==
    [ basic   |-> [health |-> 15, score2 |-> 2, collisionDamage |-> 30, canShoot |-> FALSE],
      tank    |-> [health |-> 25, score2 |-> 4, collisionDamage |-> 38, canShoot |-> FALSE],
      fast    |-> [health |-> 10, score2 |-> 3, collisionDamage |-> 18, canShoot |-> FALSE],
      shooter |-> [health |-> 20, score2 |-> 6, collisionDamage |-> 15, canShoot |-> TRUE] ]

\* Object.keys(GameEngine3D.powerUpTypes)
powerUpTypeNames == {"heal", "speed", "shield"}

\* 1 + Math.random() * 2 seconds
IdleDurations == {1500, 2500}
\* Math.random() * shootingInterval for a shooter
ShootStagger == {0, ShootIntervalMs}

Min(a, b) == IF a < b THEN a ELSE b
Max(a, b) == IF a > b THEN a ELSE b

RECURSIVE SeqToSet(_)
SeqToSet(s) == IF s = <<>> THEN {} ELSE {Head(s)} \cup SeqToSet(Tail(s))

RECURSIVE Count(_, _)
Count(s, x) == IF s = <<>> THEN 0
               ELSE (IF Head(s) = x THEN 1 ELSE 0) + Count(Tail(s), x)

RECURSIVE Reverse(_)
Reverse(s) == IF s = <<>> THEN <<>> ELSE Append(Reverse(Tail(s)), Head(s))

----------------------------------------------------------------------------
(* Enemy (src/Enemy.js) *)

\* the fields the constructor sets
EnemyNew ==
    [ destroyed |-> TRUE, currentState |-> INACTIVE, stateTimer |-> 0, health |-> 0,
      isInvincible |-> FALSE, invincibilityTimer |-> 0, type |-> "none",
      score2 |-> 0, collisionDamage |-> 0, canShoot |-> FALSE, shootTimer |-> 0 ]

\* stateTimer -= dt; below TimerFloor the value is no longer distinguished
DecTimer(t, dt) == Max(t - dt, TimerFloor)

\* shootTimer -= dt; a timer that was re-armed with the full interval cannot
\* elapse within a bounded run and is kept at the interval
DecShoot(t, dt) == IF t >= ShootIntervalMs THEN t ELSE t - dt

Enemy_setState(e, newState, rnd) ==
    IF newState = e.currentState THEN e
    ELSE LET e1 == [e EXCEPT !.currentState = newState, !.stateTimer = 0]
         IN  CASE newState = IDLE -> [e1 EXCEPT !.stateTimer = rnd]
               [] newState = ATTACKING ->
                    IF e1.canShoot
                    THEN [e1 EXCEPT !.shootTimer = Min(e1.shootTimer, AttackPreArm)]
                    ELSE e1
               [] newState = DYING -> [e1 EXCEPT !.stateTimer = DeathDelay]
               [] OTHER -> e1

Enemy_reset(e, type, rnd, stagger) ==
    LET cfg == enemyTypes[type]
        e1 == [e EXCEPT !.type = type, !.health = cfg.health, !.score2 = cfg.score2,
                        !.collisionDamage = cfg.collisionDamage,
                        !.canShoot = cfg.canShoot,
                        !.isInvincible = FALSE, !.invincibilityTimer = 0,
                        !.shootTimer = IF cfg.canShoot THEN stagger ELSE ShootIntervalMs,
                        !.destroyed = FALSE]
    IN  Enemy_setState(e1, IDLE, rnd)

Enemy_destroy(e) ==
    IF e.destroyed THEN e
    ELSE Enemy_setState([e EXCEPT !.destroyed = TRUE], INACTIVE, 0)

Enemy_applyInvincibility(e, duration) ==
    [e EXCEPT !.isInvincible = TRUE, !.invincibilityTimer = duration]

\* takeDamage with the guard on isInvincible dropped
Enemy_takeDamage_NoInvincibility(e, amount) ==
    IF e.destroyed \/ e.currentState = DYING \/ e.currentState = INACTIVE
    THEN [e |-> e, ret |-> 0]
    ELSE LET e1 == [e EXCEPT !.health = Max(0, e.health - amount)]
             e2 == Enemy_applyInvincibility(e1, invincibilityDuration)
             e3 == IF e2.health <= 0 THEN Enemy_setState(e2, DYING, 0) ELSE e2
         IN  [e |-> e3, ret |-> amount]

\* takeDamage that opens no invincibility window
Enemy_takeDamage_NoWindow(e, amount) ==
    IF e.isInvincible \/ e.destroyed \/ e.currentState = DYING \/ e.currentState = INACTIVE
    THEN [e |-> e, ret |-> 0]
    ELSE LET e1 == [e EXCEPT !.health = Max(0, e.health - amount)]
             e3 == IF e1.health <= 0 THEN Enemy_setState(e1, DYING, 0) ELSE e1
         IN  [e |-> e3, ret |-> amount]

\* takeDamage that destroys the enemy at once when its health reaches 0
Enemy_takeDamage_DestroysAtZero(e, amount) ==
    IF e.isInvincible \/ e.destroyed \/ e.currentState = DYING \/ e.currentState = INACTIVE
    THEN [e |-> e, ret |-> 0]
    ELSE LET e1 == [e EXCEPT !.health = Max(0, e.health - amount)]
             e2 == Enemy_applyInvincibility(e1, invincibilityDuration)
             e3 == IF e2.health <= 0 THEN Enemy_destroy(e2) ELSE e2
         IN  [e |-> e3, ret |-> amount]

\* takeDamage that does not clamp health at 0
Enemy_takeDamage_NoClamp(e, amount) ==
    IF e.isInvincible \/ e.destroyed \/ e.currentState = DYING \/ e.currentState = INACTIVE
    THEN [e |-> e, ret |-> 0]
    ELSE LET e1 == [e EXCEPT !.health = e.health - amount]
             e2 == Enemy_applyInvincibility(e1, invincibilityDuration)
             e3 == IF e2.health <= 0 THEN Enemy_setState(e2, DYING, 0) ELSE e2
         IN  [e |-> e3, ret |-> amount]

\* returns the enemy after the call and the value the call returns
Enemy_takeDamage(e, amount) ==
    IF e.isInvincible \/ e.destroyed \/ e.currentState = DYING \/ e.currentState = INACTIVE
    THEN [e |-> e, ret |-> 0]
    ELSE LET e1 == [e EXCEPT !.health = Max(0, e.health - amount)]
             e2 == Enemy_applyInvincibility(e1, invincibilityDuration)
             e3 == IF e2.health <= 0 THEN Enemy_setState(e2, DYING, 0) ELSE e2
         IN  [e |-> e3, ret |-> amount]

Enemy_updateTimers(e, dt) ==
    IF e.isInvincible
    THEN LET t == DecTimer(e.invincibilityTimer, dt)
         IN  [e EXCEPT !.invincibilityTimer = t, !.isInvincible = ~(t <= 0)]
    ELSE e

\* updateFSM, "State Logic Execution": the stateTimer is decremented and the
\* case of the current state runs.  Returns the enemy and whether shoot()
\* asked the engine for a bullet.
Enemy_stateLogic(e, dt, rnd) ==
    LET e1 == [e EXCEPT !.stateTimer = DecTimer(e.stateTimer, dt)]
        fires == e1.currentState = ATTACKING /\ e1.canShoot
                 /\ DecShoot(e1.shootTimer, dt) <= 0
    IN  [e |-> CASE e1.currentState = IDLE ->
                      IF e1.stateTimer <= 0 THEN [e1 EXCEPT !.stateTimer = rnd] ELSE e1
                 [] e1.currentState = ATTACKING ->
                      IF e1.canShoot
                      THEN [e1 EXCEPT !.shootTimer =
                               IF fires THEN ShootIntervalMs
                               ELSE DecShoot(e1.shootTimer, dt)]
                      ELSE e1
                 [] e1.currentState = DYING ->
                      IF e1.stateTimer <= 0 THEN Enemy_destroy(e1) ELSE e1
                 [] OTHER -> e1,
         shot |-> fires]

\* transition checks in which an Idle enemy within shootDistance enters
\* Attacking directly
Enemy_transitionChecks_SkipsChasing(e, prox, rnd) ==
    LET canAttack == prox = "attack"
        canChase == prox \in {"attack", "chase"}
    IN  CASE e.currentState = IDLE ->
               IF canAttack THEN Enemy_setState(e, ATTACKING, rnd)
               ELSE IF canChase THEN Enemy_setState(e, CHASING, rnd) ELSE e
          [] e.currentState = CHASING ->
               IF canAttack THEN Enemy_setState(e, ATTACKING, rnd)
               ELSE IF ~canChase THEN Enemy_setState(e, IDLE, rnd)
               ELSE e
          [] e.currentState = ATTACKING ->
               IF ~canAttack THEN Enemy_setState(e, CHASING, rnd) ELSE e
          [] OTHER -> e

\* updateFSM, "State Transition Checks": prox is the distance class of the
\* tick, "attack" (within shootDistance and chaseDistance), "chase" (within
\* chaseDistance only) or "far"
Enemy_transitionChecks(e, prox, rnd) ==
    LET canAttack == prox = "attack"
        canChase == prox \in {"attack", "chase"}
    IN  CASE e.currentState = IDLE ->
               IF canChase THEN Enemy_setState(e, CHASING, rnd) ELSE e
          [] e.currentState = CHASING ->
               IF canAttack THEN Enemy_setState(e, ATTACKING, rnd)
               ELSE IF ~canChase THEN Enemy_setState(e, IDLE, rnd)
               ELSE e
          [] e.currentState = ATTACKING ->
               IF ~canAttack THEN Enemy_setState(e, CHASING, rnd) ELSE e
          [] OTHER -> e

\* the no-player branch without the setState(IDLE) of Chasing and Attacking
Enemy_noPlayerBranch_NoDegrade(e, dt, rnd) ==
    LET e2 == [e EXCEPT !.stateTimer = DecTimer(e.stateTimer, dt)]
    IN  IF e.currentState \in {IDLE, DYING, INACTIVE}
        THEN [e |-> IF e2.currentState = DYING /\ e2.stateTimer <= 0
                    THEN Enemy_destroy(e2) ELSE e2,
              shot |-> FALSE, deref |-> FALSE]
        ELSE [e |-> e2, shot |-> FALSE, deref |-> TRUE]

\* updateFSM when engine.player is null or destroyed.  deref tells whether
\* the call went on to read engine.player.mesh, which it does for an enemy
\* that is outside Idle, Dying and Inactive after the branch.
Enemy_noPlayerBranch(e, dt, rnd) ==
    LET e1 == IF e.currentState \notin {IDLE, DYING, INACTIVE}
              THEN Enemy_setState(e, IDLE, rnd) ELSE e
        e2 == [e1 EXCEPT !.stateTimer = DecTimer(e1.stateTimer, dt)]
    IN  IF e1.currentState \in {IDLE, DYING, INACTIVE}
        THEN [e |-> IF e2.currentState = DYING /\ e2.stateTimer <= 0
                    THEN Enemy_destroy(e2) ELSE e2,
              shot |-> FALSE, deref |-> FALSE]
        ELSE [e |-> e2, shot |-> FALSE, deref |-> TRUE]

\* Returns the enemy, whether shoot() asked the engine for a bullet and
\* whether the call read engine.player.mesh.
Enemy_updateFSM(e, dt, playerLive, prox, rnd) ==
    IF ~playerLive THEN Enemy_noPlayerBranch(e, dt, rnd)
    ELSE LET r == Enemy_stateLogic(e, dt, rnd)
             e3 == IF r.e.currentState \notin {DYING, INACTIVE}
                   THEN Enemy_transitionChecks(r.e, prox, rnd) ELSE r.e
         IN  [e |-> e3, shot |-> r.shot, deref |-> TRUE]

Enemy_update(e, dt, playerLive, prox, rnd) ==
    IF e.destroyed \/ e.currentState = INACTIVE
    THEN [e |-> e, shot |-> FALSE, deref |-> FALSE]
    ELSE Enemy_updateFSM(Enemy_updateTimers(e, dt), dt, playerLive, prox, rnd)

----------------------------------------------------------------------------
(* Bullet (src/Bullets.js) *)

\* travel stands for mesh.position: the distance from the origin of the last
\* successful reset, in units * ms
BulletNew ==
    [ destroyed |-> TRUE, isPlayerBullet |-> TRUE, damage |-> 5, speed |-> 15,
      lifespanTimer |-> 0, visible |-> FALSE, travel |-> 0 ]

Bullet_destroy(b) ==
    IF b.destroyed THEN b ELSE [b EXCEPT !.destroyed = TRUE, !.visible = FALSE]

\* reset without the test of its arguments
Bullet_reset_NoNullCheck(b, argsOk, damage, isPlayerBullet) ==
    [b EXCEPT !.damage = damage, !.isPlayerBullet = isPlayerBullet,
              !.speed = IF isPlayerBullet THEN PlayerBulletSpeed ELSE EnemyBulletSpeed,
              !.lifespanTimer = 0, !.destroyed = FALSE, !.travel = 0,
              !.visible = TRUE]

\* argsOk: originPosition and direction are both non-null
Bullet_reset(b, argsOk, damage, isPlayerBullet) ==
    IF ~argsOk THEN Bullet_destroy(b)
    ELSE [b EXCEPT !.damage = damage, !.isPlayerBullet = isPlayerBullet,
                   !.speed = IF isPlayerBullet THEN PlayerBulletSpeed ELSE EnemyBulletSpeed,
                   !.lifespanTimer = 0, !.destroyed = FALSE, !.travel = 0,
                   !.visible = TRUE]

\* update that lets the bullet live through the tick its lifespan ends at
Bullet_update_StrictLifespan(b, dt) ==
    IF b.destroyed THEN b
    ELSE LET b1 == [b EXCEPT !.travel = b.travel + b.speed * dt,
                             !.lifespanTimer = b.lifespanTimer + dt]
         IN  IF b1.lifespanTimer > maxLifespan THEN Bullet_destroy(b1) ELSE b1

Bullet_update(b, dt) ==
    IF b.destroyed THEN b
    ELSE LET b1 == [b EXCEPT !.travel = b.travel + b.speed * dt,
                             !.lifespanTimer = b.lifespanTimer + dt]
         IN  IF b1.lifespanTimer >= maxLifespan THEN Bullet_destroy(b1) ELSE b1

----------------------------------------------------------------------------
(* PowerUp (src/InputState.js) *)

PowerUpNew == [ destroyed |-> TRUE, type |-> "default", visible |-> FALSE ]

PowerUp_reset(p, type) ==
    [p EXCEPT !.type = IF type \in powerUpTypeNames THEN type ELSE "default",
              !.destroyed = FALSE, !.visible = TRUE]

PowerUp_destroy(p) ==
    IF p.destroyed THEN p ELSE [p EXCEPT !.destroyed = TRUE, !.visible = FALSE]

----------------------------------------------------------------------------
(* Player (src/WeaponManager.js, class Player) *)

PlayerNew ==
    [ health |-> PlayerMaxHealth, maxHealth |-> PlayerMaxHealth,
      isInvincible |-> FALSE, invincibilityTimer |-> 0, isShielded |-> FALSE,
      destroyed |-> FALSE, shootTimer |-> 0,
      speedMultiplier |-> BaseSpeedMultiplier, activePowerUps |-> {} ]

NoPlayer == [ absent |-> TRUE ]

HasPlayer(pl) == "absent" \notin DOMAIN pl
PlayerLive(pl) == HasPlayer(pl) /\ ~pl.destroyed

Player_updateTimers(pl, dt) ==
    IF pl.isInvincible
    THEN LET t == DecTimer(pl.invincibilityTimer, dt)
         IN  [pl EXCEPT !.invincibilityTimer = t, !.isInvincible = ~(t <= 0)]
    ELSE pl

\* returns the player, whether die() ran (engine.endGame is then called) and
\* the value returned
Player_takeDamage(pl, amount) ==
    IF pl.isInvincible \/ pl.isShielded \/ pl.destroyed
    THEN [p |-> pl, died |-> FALSE, ret |-> 0]
    ELSE LET p1 == [pl EXCEPT !.health = Max(0, pl.health - amount),
                              !.isInvincible = TRUE,
                              !.invincibilityTimer = PlayerInvincibilityDuration]
         IN  IF p1.health <= 0
             THEN [p |-> [p1 EXCEPT !.destroyed = TRUE], died |-> TRUE, ret |-> amount]
             ELSE [p |-> p1, died |-> FALSE, ret |-> amount]

Player_heal(pl, amount) ==
    IF pl.destroyed THEN pl
    ELSE [pl EXCEPT !.health = Min(pl.maxHealth, pl.health + amount)]

\* activePowerUps holds the types whose removal timeout is pending; setting a
\* timer for a type clears the pending one of that type
Player_setPowerUpTimer(pl, type) == [pl EXCEPT !.activePowerUps = @ \cup {type}]

\* speedMultiplier in tenths
Player_applySpeedBoost(pl, multiplier) ==
    Player_setPowerUpTimer([pl EXCEPT !.speedMultiplier = Max(@, multiplier)], "speed")

Player_activateShield(pl) ==
    Player_setPowerUpTimer([pl EXCEPT !.isShielded = TRUE], "shield")

\* the timeout set by setPowerUpTimer for the type elapses
Player_powerUpTimeout(pl, type) ==
    LET p1 == IF type = "speed" THEN [pl EXCEPT !.speedMultiplier = BaseSpeedMultiplier]
              ELSE [pl EXCEPT !.isShielded = FALSE]
    IN  [p1 EXCEPT !.activePowerUps = @ \ {type}]

----------------------------------------------------------------------------
(* PowerUp.collect (src/InputState.js) *)

\* the effect collect applies for a power-up of the type
PowerUp_effect(type, pl) ==
    CASE type = "heal" -> Player_heal(pl, PowerUpHealAmount)
      [] type = "speed" -> Player_applySpeedBoost(pl, PowerUpSpeedMultiplier)
      [] type = "shield" -> Player_activateShield(pl)
      [] OTHER -> pl

\* collect without the test of the destroyed flag
PowerUp_collect_NoGuard(p, pl) ==
    [p |-> PowerUp_destroy(p), pl |-> PowerUp_effect(p.type, pl)]

\* returns the power-up and the player after collect(player)
PowerUp_collect(p, pl) ==
    IF p.destroyed THEN [p |-> p, pl |-> pl]
    ELSE [p |-> PowerUp_destroy(p), pl |-> PowerUp_effect(p.type, pl)]

----------------------------------------------------------------------------
(* WeaponManager (src/WeaponManager.js).  this.weapons, a Map, is the       *)
(* sequence of its keys in insertion order (ids) with the entry of each key *)
(* (entry); currentWeapon refers to an entry of the Map and is kept as the  *)
(* key that entry is stored under.                                          *)

\* Number.POSITIVE_INFINITY, above every finite amount of the model
Infinity == 1000000
\* null, for equippedWeaponId and currentWeapon
NoWeapon == "null"

\* defaultWeapons, in the order of its keys
defaultWeapons ==
    << [id |-> "pistol",
        config |-> [damage |-> 8, cooldown |-> 300, ammoMax |-> Infinity,
                    ammoCurrent |-> Infinity]],
       [id |-> "rifle",
        config |-> [damage |-> 15, cooldown |-> 100, ammoMax |-> 150,
                    ammoCurrent |-> 150]] >>

RECURSIVE IndexOf(_, _)
\* Array.prototype.indexOf, from 0, -1 when absent
IndexOf(ids, id) ==
    IF ids = <<>> THEN -1
    ELSE IF Head(ids) = id THEN 0
    ELSE LET i == IndexOf(Tail(ids), id) IN IF i = -1 THEN -1 ELSE i + 1

WeaponManager_has(wm, id) == id \in DOMAIN wm.entry

\* equipWeapon that does not look the id up in the registry
WeaponManager_equipWeapon_Unchecked(wm, id) ==
    IF wm.equippedWeaponId = id THEN [wm |-> wm, ret |-> FALSE]
    ELSE [wm |-> [wm EXCEPT !.equippedWeaponId = id, !.currentWeapon = id,
                            !.fireTimer = 0],
          ret |-> TRUE]

\* returns the manager and the value returned
WeaponManager_equipWeapon(wm, id) ==
    IF ~WeaponManager_has(wm, id) \/ wm.equippedWeaponId = id
    THEN [wm |-> wm, ret |-> FALSE]
    ELSE [wm |-> [wm EXCEPT !.equippedWeaponId = id, !.currentWeapon = id,
                            !.fireTimer = 0],
          ret |-> TRUE]

\* addWeapon that tops the ammo up without the cap at ammoMax
WeaponManager_addWeapon_NoCap(wm, id, config) ==
    IF WeaponManager_has(wm, id)
    THEN LET existing == wm.entry[id]
         IN  IF existing.ammoCurrent # Infinity /\ config.ammoMax > 0
             THEN [wm EXCEPT !.entry[id].ammoCurrent = existing.ammoCurrent + config.ammoCurrent]
             ELSE wm
    ELSE LET w1 == [wm EXCEPT !.ids = Append(@, id),
                              !.entry = (id :> config) @@ wm.entry]
         IN  IF w1.equippedWeaponId = NoWeapon
             THEN WeaponManager_equipWeapon(w1, id).wm ELSE w1

WeaponManager_addWeapon(wm, id, config) ==
    IF WeaponManager_has(wm, id)
    THEN LET existing == wm.entry[id]
         IN  IF existing.ammoCurrent # Infinity /\ config.ammoMax > 0
             THEN [wm EXCEPT !.entry[id].ammoCurrent =
                                 Min(existing.ammoMax,
                                     existing.ammoCurrent + config.ammoCurrent)]
             ELSE wm
    ELSE LET w1 == [wm EXCEPT !.ids = Append(@, id),
                              !.entry = (id :> config) @@ wm.entry]
         IN  IF w1.equippedWeaponId = NoWeapon
             THEN WeaponManager_equipWeapon(w1, id).wm ELSE w1

RECURSIVE WeaponManager_addAll(_, _)
\* for (const id in defaultWeapons) this.addWeapon(id, defaultWeapons[id])
WeaponManager_addAll(wm, table) ==
    IF table = <<>> THEN wm
    ELSE WeaponManager_addAll(WeaponManager_addWeapon(wm, Head(table).id, Head(table).config),
                              Tail(table))

WeaponManager_loadDefaultWeapons(wm, table) ==
    LET w1 == WeaponManager_addAll(wm, table)
    IN  IF Len(w1.ids) > 0 THEN WeaponManager_equipWeapon(w1, w1.ids[1]).wm ELSE w1

\* new WeaponManager(engine, player), defaultWeapons being the table
WeaponManagerNew(table) ==
    WeaponManager_loadDefaultWeapons(
        [ids |-> <<>>, entry |-> <<>>, equippedWeaponId |-> NoWeapon,
         currentWeapon |-> NoWeapon, fireTimer |-> 0],
        table)

\* update that counts every frame twice
WeaponManager_update_Double(wm, dt) ==
    IF wm.fireTimer > 0 THEN [wm EXCEPT !.fireTimer = @ - 2 * dt] ELSE wm

WeaponManager_update(wm, dt) ==
    IF wm.fireTimer > 0 THEN [wm EXCEPT !.fireTimer = @ - dt] ELSE wm

\* canFire that does not look at the ammo
WeaponManager_canFire_IgnoresAmmo(wm) ==
    ~(wm.currentWeapon = NoWeapon \/ wm.fireTimer > 0)

WeaponManager_canFire(wm) ==
    IF wm.currentWeapon = NoWeapon \/ wm.fireTimer > 0 THEN FALSE
    ELSE IF /\ wm.entry[wm.currentWeapon].ammoCurrent # Infinity
            /\ wm.entry[wm.currentWeapon].ammoCurrent <= 0
         THEN FALSE
         ELSE TRUE

\* returns the manager, the value returned and the engine.spawnBullet calls
\* made, each with its damage and isPlayerBullet arguments
WeaponManager_fire(wm) ==
    IF ~WeaponManager_canFire(wm) THEN [wm |-> wm, ret |-> FALSE, spawn |-> <<>>]
    ELSE LET cur == wm.currentWeapon
             w1 == [wm EXCEPT !.fireTimer = wm.entry[cur].cooldown]
             w2 == IF w1.entry[cur].ammoCurrent # Infinity
                   THEN [w1 EXCEPT !.entry[cur].ammoCurrent = @ - 1] ELSE w1
         IN  [wm |-> w2, ret |-> TRUE,
              spawn |-> <<[damage |-> w2.entry[cur].damage, isPlayerBullet |-> TRUE]>>]

\* switchToNextWeapon that stops at the last weapon
WeaponManager_switchToNextWeapon_NoWrap(wm) ==
    IF Len(wm.ids) <= 1 THEN wm
    ELSE LET currentIndex == IndexOf(wm.ids, wm.equippedWeaponId)
             nextIndex == Min(currentIndex + 1, Len(wm.ids) - 1)
         IN  WeaponManager_equipWeapon(wm, wm.ids[nextIndex + 1]).wm

WeaponManager_switchToNextWeapon(wm) ==
    IF Len(wm.ids) <= 1 THEN wm
    ELSE LET currentIndex == IndexOf(wm.ids, wm.equippedWeaponId)
             nextIndex == (currentIndex + 1) % Len(wm.ids)
         IN  WeaponManager_equipWeapon(wm, wm.ids[nextIndex + 1]).wm

WeaponManager_switchToPreviousWeapon(wm) ==
    IF Len(wm.ids) <= 1 THEN wm
    ELSE LET currentIndex == IndexOf(wm.ids, wm.equippedWeaponId)
             prevIndex == (currentIndex - 1 + Len(wm.ids)) % Len(wm.ids)
         IN  WeaponManager_equipWeapon(wm, wm.ids[prevIndex + 1]).wm

----------------------------------------------------------------------------
(* The engine state as one value, so that a handler is a composition of the *)
(* methods it calls (src/UIManager.js, class GameEngine3D)                  *)

\* no WeaponManager has been constructed
NoWeaponManager == [ absent |-> TRUE ]

\* no PlayerController has been constructed
NoPlayerController == [ absent |-> TRUE ]

World ==
    [ gameState |-> gameState, score |-> score, currentWave |-> currentWave,
      enemiesToSpawn |-> enemiesToSpawn,
      enemiesRemainingInWave |-> enemiesRemainingInWave,
      enemiesActive |-> enemiesActive, waveCooldownTimer |-> waveCooldownTimer,
      assetsLoaded |-> assetsLoaded,
      activeEnemies |-> activeEnemies, activeBullets |-> activeBullets,
      activePowerUps |-> activePowerUps, pools |-> pools, scene |-> scene,
      enemies |-> enemies, bullets |-> bullets, powerUps |-> powerUps,
      player |-> player, made |-> made, spawnTimers |-> spawnTimers,
      startPc |-> startPc ]

\* the engine's fields become those of w
SetFields(w) ==
    /\ gameState' = w.gameState
    /\ score' = w.score
    /\ currentWave' = w.currentWave
    /\ enemiesToSpawn' = w.enemiesToSpawn
    /\ enemiesRemainingInWave' = w.enemiesRemainingInWave
    /\ enemiesActive' = w.enemiesActive
    /\ waveCooldownTimer' = w.waveCooldownTimer
    /\ assetsLoaded' = w.assetsLoaded
    /\ activeEnemies' = w.activeEnemies
    /\ activeBullets' = w.activeBullets
    /\ activePowerUps' = w.activePowerUps
    /\ pools' = w.pools
    /\ scene' = w.scene
    /\ enemies' = w.enemies
    /\ bullets' = w.bullets
    /\ powerUps' = w.powerUps
    /\ player' = w.player
    /\ made' = w.made
    /\ spawnTimers' = w.spawnTimers
    /\ startPc' = w.startPc

\* the step of a handler that belongs to no PlayerController
SetEngine(w) == SetFields(w) /\ playerController' = playerController

\* the step of an engine handler: no WeaponManager is touched
SetWorld(w) == SetEngine(w) /\ weaponManager' = weaponManager

\* the state the GameEngine3D constructor leaves
EngineNew ==
    [ gameState |-> TITLE, score |-> 0, currentWave |-> 0, enemiesToSpawn |-> 0,
      enemiesRemainingInWave |-> 0, enemiesActive |-> 0, waveCooldownTimer |-> 0,
      assetsLoaded |-> FALSE,
      activeEnemies |-> <<>>, activeBullets |-> <<>>, activePowerUps |-> <<>>,
      pools |-> [enemies |-> <<>>, bullets |-> <<>>, powerUps |-> <<>>],
      scene |-> {},
      enemies |-> [n \in 1..NumEnemies |-> EnemyNew],
      bullets |-> [n \in 1..NumBullets |-> BulletNew],
      powerUps |-> [n \in 1..NumPowerUps |-> PowerUpNew],
      player |-> NoPlayer,
      made |-> [enemy |-> 0, bullet |-> 0, powerUp |-> 0],
      spawnTimers |-> <<>>,
      startPc |-> "new" ]

\* the instances constructed so far
Constructed(w) == {<<k, n>> : k \in {"enemy"}, n \in 1..w.made.enemy}
             \cup {<<k, n>> : k \in {"bullet"}, n \in 1..w.made.bullet}
             \cup {<<k, n>> : k \in {"powerUp"}, n \in 1..w.made.powerUp}

AllRefs == {<<k, n>> : k \in {"enemy"}, n \in 1..NumEnemies}
      \cup {<<k, n>> : k \in {"bullet"}, n \in 1..NumBullets}
      \cup {<<k, n>> : k \in {"powerUp"}, n \in 1..NumPowerUps}

\* object._destroyed
Destroyed(w, ref) ==
    CASE ref[1] = "enemy" -> w.enemies[ref[2]].destroyed
      [] ref[1] = "bullet" -> w.bullets[ref[2]].destroyed
      [] OTHER -> w.powerUps[ref[2]].destroyed

\* object._destroyed = v
SetDestroyed(w, ref, v) ==
    CASE ref[1] = "enemy" -> [w EXCEPT !.enemies[ref[2]].destroyed = v]
      [] ref[1] = "bullet" -> [w EXCEPT !.bullets[ref[2]].destroyed = v]
      [] OTHER -> [w EXCEPT !.powerUps[ref[2]].destroyed = v]

\* getObjectFromPool that takes the oldest free instance instead of the newest
getObjectFromPool_Fifo(w, poolName) ==
    IF poolName \notin DOMAIN w.pools
    THEN [w |-> w, ret |-> Null, fault |-> TRUE]
    ELSE LET pool == w.pools[poolName]
         IN  IF Len(pool) > 0
             THEN LET obj == Head(pool)
                      w1 == [w EXCEPT !.pools[poolName] = Tail(pool)]
                      w2 == SetDestroyed(w1, obj, FALSE)
                  IN  [w |-> [w2 EXCEPT !.scene = @ \cup {obj}], ret |-> obj,
                       fault |-> FALSE]
             ELSE [w |-> w, ret |-> Null, fault |-> FALSE]

\* returns the engine after the call, the value returned (Null for null) and
\* whether the call threw: this.pools[poolName] is undefined for a name that
\* is no key of this.pools, and reading pool.length then throws a TypeError
getObjectFromPool(w, poolName) ==
    IF poolName \notin DOMAIN w.pools
    THEN [w |-> w, ret |-> Null, fault |-> TRUE]
    ELSE LET pool == w.pools[poolName]
         IN  IF Len(pool) > 0
             THEN LET obj == pool[Len(pool)]
                      w1 == [w EXCEPT !.pools[poolName] = SubSeq(pool, 1, Len(pool) - 1)]
                      w2 == SetDestroyed(w1, obj, FALSE)
                  IN  [w |-> [w2 EXCEPT !.scene = @ \cup {obj}], ret |-> obj,
                       fault |-> FALSE]
             ELSE [w |-> w, ret |-> Null, fault |-> FALSE]

returnObjectToPool(w, object, poolName) ==
    IF object = Null THEN w
    ELSE LET w1 == SetDestroyed(w, object, TRUE)
             w2 == [w1 EXCEPT !.scene = @ \ {object}]
         IN  IF poolName \in DOMAIN w2.pools
             THEN [w2 EXCEPT !.pools[poolName] = Append(@, object)]
             ELSE w2

----------------------------------------------------------------------------
(* Player.update, as far as the engine reads its effects *)

\* returns the player and whether shoot() asked the engine for a bullet
Player_update(pl, dt, shoot) ==
    IF pl.destroyed THEN [p |-> pl, fired |-> FALSE]
    ELSE LET p1 == Player_updateTimers(pl, dt)
             p2 == IF p1.shootTimer > 0
                   THEN [p1 EXCEPT !.shootTimer = DecTimer(p1.shootTimer, dt)] ELSE p1
         IN  IF shoot /\ p2.shootTimer <= 0
             THEN [p |-> [p2 EXCEPT !.shootTimer = PlayerShootCooldown], fired |-> TRUE]
             ELSE [p |-> p2, fired |-> FALSE]

----------------------------------------------------------------------------
(* GameEngine3D: spawning *)

PlayerMesh == <<"player", 0>>

\* Math.random() in percent
RandDraws == {0, 82, 90, 99}

\* the chances without the wave at which each type phases in
ChanceOf_NoThreshold(type, wave) ==
    CASE type = "basic" -> Max(0, 100 - wave * 8)
      [] type = "tank" -> Min(30, Max(0, (wave - 2) * 4))
      [] type = "fast" -> Min(40, wave * 5)
      [] OTHER -> Min(25, Max(0, (wave - 4) * 3))

\* chances.basic, .tank, .fast, .shooter of getRandomEnemyTypeByWaveNumber,
\* in percent
ChanceOf(type, wave) ==
    CASE type = "basic" -> Max(0, 100 - wave * 8)
      [] type = "tank" -> IF wave >= 3 THEN Min(30, (wave - 2) * 4) ELSE 0
      [] type = "fast" -> IF wave >= 2 THEN Min(40, wave * 5) ELSE 0
      [] OTHER -> IF wave >= 5 THEN Min(25, (wave - 4) * 3) ELSE 0

\* rand < cumulative * (1 / totalChance), walking the keys of `chances' in
\* their order basic, tank, fast, shooter
getRandomEnemyTypeByWaveNumber(wave, rand) ==
    LET b == ChanceOf("basic", wave)
        t == ChanceOf("tank", wave)
        f == ChanceOf("fast", wave)
        s == ChanceOf("shooter", wave)
        total == b + t + f + s
    IN  IF total <= 0 THEN "basic"
        ELSE IF rand * total < 100 * b THEN "basic"
        ELSE IF rand * total < 100 * (b + t) THEN "tank"
        ELSE IF rand * total < 100 * (b + t + f) THEN "fast"
        ELSE IF rand * total < 100 * (b + t + f + s) THEN "shooter"
        ELSE "basic"

\* Math.ceil(5 + wave * 1.5)
calculateEnemiesForWave_Ceil(wave) == (10 + wave * 3 + 1) \div 2

\* Math.floor(5 + wave * 1.5)
calculateEnemiesForWave(wave) == (10 + wave * 3) \div 2

\* spawnInterval of startNextWave, in ms
spawnInterval(wave) == Max(200, 1500 - wave * 50)

\* spawnEnemy without this.enemiesActive++
spawnEnemy_NoCount(w, rand, rnd, stagger) ==
    LET g == getObjectFromPool(w, "enemies")
    IN  IF g.ret = Null THEN g.w
        ELSE LET type == getRandomEnemyTypeByWaveNumber(w.currentWave, rand)
             IN  [g.w EXCEPT !.enemies[g.ret[2]] = Enemy_reset(@, type, rnd, stagger),
                             !.activeEnemies = Append(@, g.ret)]

spawnEnemy(w, rand, rnd, stagger) ==
    LET g == getObjectFromPool(w, "enemies")
    IN  IF g.ret = Null THEN g.w
        ELSE LET type == getRandomEnemyTypeByWaveNumber(w.currentWave, rand)
             IN  [g.w EXCEPT !.enemies[g.ret[2]] = Enemy_reset(@, type, rnd, stagger),
                             !.activeEnemies = Append(@, g.ret),
                             !.enemiesActive = @ + 1]

\* argsOk: originPosition and direction are both non-null
spawnBullet(w, argsOk, damage, isPlayerBullet) ==
    LET g == getObjectFromPool(w, "bullets")
    IN  IF g.ret = Null THEN g.w
        ELSE [g.w EXCEPT !.bullets[g.ret[2]] = Bullet_reset(@, argsOk, damage, isPlayerBullet),
                         !.activeBullets = Append(@, g.ret)]

spawnPowerUp(w, type) ==
    LET g == getObjectFromPool(w, "powerUps")
    IN  IF g.ret = Null THEN g.w
        ELSE [g.w EXCEPT !.powerUps[g.ret[2]] = PowerUp_reset(@, type),
                         !.activePowerUps = Append(@, g.ret)]

----------------------------------------------------------------------------
(* GameEngine3D: the phases of a tick.  `in' is the input of the tick:      *)
(*   dt     the frame time                                                  *)
(*   shoot  inputState.shoot                                                *)
(*   cls    enemy n |-> "far", "chase", "attack" or "touch" (within attack  *)
(*          distance and its box intersecting the player's)                 *)
(*   rnd    enemy n |-> the idle duration it draws, for the enemies that    *)
(*          draw one in this tick                                           *)
(*   hits   the pairs <<bullet n, enemy m>> whose boxes intersect           *)
(*   hitPl  the bullets whose box intersects the player's                   *)
(*   touchP the power-ups whose box intersects the player's                 *)
(*   drops  enemy n |-> "none" or the type of the power-up it drops         *)

ClsOf(in, n) == IF n \in DOMAIN in.cls THEN in.cls[n] ELSE "far"
ProxOf(in, n) == IF ClsOf(in, n) = "touch" THEN "attack" ELSE ClsOf(in, n)
RndOf(in, n) == IF n \in DOMAIN in.rnd THEN in.rnd[n] ELSE 1500
DropOf(in, n) == IF n \in DOMAIN in.drops THEN in.drops[n] ELSE "none"

endGame(w) ==
    IF w.gameState = GAME_OVER THEN w ELSE [w EXCEPT !.gameState = GAME_OVER]

\* this.player.takeDamage(amount), with Player.die calling engine.endGame
playerTakeDamage(w, amount) ==
    LET r == Player_takeDamage(w.player, amount)
        w1 == [w EXCEPT !.player = r.p]
    IN  IF r.died THEN endGame(w1) ELSE w1

\* this.activeEnemies.forEach(e => e.update(dt)), a shot going through
\* engine.spawnBullet
RECURSIVE updateEnemies(_, _, _)
updateEnemies(w, list, in) ==
    IF list = <<>> THEN w
    ELSE LET n == Head(list)[2]
             r == Enemy_update(w.enemies[n], in.dt, PlayerLive(w.player),
                               ProxOf(in, n), RndOf(in, n))
             w1 == [w EXCEPT !.enemies[n] = r.e]
             w2 == IF r.shot THEN spawnBullet(w1, TRUE, EnemyBulletDamage, FALSE) ELSE w1
         IN  updateEnemies(w2, Tail(list), in)

\* this.activeBullets.forEach(b => b.update(dt))
RECURSIVE updateBullets(_, _, _)
updateBullets(w, list, dt) ==
    IF list = <<>> THEN w
    ELSE updateBullets([w EXCEPT !.bullets[Head(list)[2]] = Bullet_update(@, dt)],
                       Tail(list), dt)

updateEntities(w, in, isTransition) ==
    LET w1 == IF HasPlayer(w.player) /\ (w.gameState = PLAYING \/ isTransition)
              THEN LET r == Player_update(w.player, in.dt, in.shoot)
                       wp == [w EXCEPT !.player = r.p]
                   IN  IF r.fired THEN spawnBullet(wp, TRUE, PlayerAttack, TRUE) ELSE wp
              ELSE w
    IN  IF w1.gameState = PLAYING
        THEN LET w2 == updateEnemies(w1, w1.activeEnemies, in)
             IN  updateBullets(w2, w2.activeBullets, in.dt)
        ELSE w1

\* the inner loop of "1. Player Bullets vs Enemies" for bullet b; x is the
\* pair of the engine and the log of the hits dispatched
RECURSIVE collideEnemies(_, _, _, _)
collideEnemies(x, b, list, in) ==
    IF list = <<>> THEN x
    ELSE LET m == Head(list)[2]
             e == x.w.enemies[m]
         IN  IF e.destroyed \/ e.isInvincible \/ <<b, m>> \notin in.hits
             THEN collideEnemies(x, b, Tail(list), in)
             ELSE LET r == Enemy_takeDamage(e, x.w.bullets[b].damage)
                      w1 == [x.w EXCEPT !.enemies[m] = r.e,
                                        !.bullets[b] = Bullet_destroy(@)]
                      ev == [bullet |-> b, enemy |-> m, dealt |-> r.ret,
                             destroys |-> w1.bullets[b].destroyed
                                          /\ ~x.w.bullets[b].destroyed,
                             health |-> r.e.health, state |-> r.e.currentState]
                  IN  collideEnemies([w |-> w1, log |-> x.log \cup {ev}], b,
                                     Tail(list), in)

\* "1. Player Bullets vs Enemies"
RECURSIVE collidePlayerBullets(_, _, _)
collidePlayerBullets(x, list, in) ==
    IF list = <<>> THEN x
    ELSE LET b == Head(list)[2]
         IN  IF ~x.w.bullets[b].isPlayerBullet \/ x.w.bullets[b].destroyed
             THEN collidePlayerBullets(x, Tail(list), in)
             ELSE collidePlayerBullets(collideEnemies(x, b, x.w.activeEnemies, in),
                                       Tail(list), in)

\* "2. Enemy Bullets vs Player"
RECURSIVE collideEnemyBullets(_, _, _)
collideEnemyBullets(w, list, in) ==
    IF list = <<>> THEN w
    ELSE LET b == Head(list)[2]
         IN  IF w.bullets[b].isPlayerBullet \/ w.bullets[b].destroyed \/ b \notin in.hitPl
             THEN collideEnemyBullets(w, Tail(list), in)
             ELSE LET w1 == playerTakeDamage(w, w.bullets[b].damage)
                  IN  collideEnemyBullets([w1 EXCEPT !.bullets[b] = Bullet_destroy(@)],
                                          Tail(list), in)

\* "3. Player vs Enemies"
RECURSIVE collidePlayerEnemies(_, _, _)
collidePlayerEnemies(w, list, in) ==
    IF list = <<>> THEN w
    ELSE LET m == Head(list)[2]
         IN  IF w.enemies[m].destroyed \/ ClsOf(in, m) # "touch"
             THEN collidePlayerEnemies(w, Tail(list), in)
             ELSE collidePlayerEnemies(playerTakeDamage(w, w.enemies[m].collisionDamage),
                                       Tail(list), in)

\* "4. Player vs PowerUps": the power-up is destroyed, collect is not called
RECURSIVE collidePowerUps(_, _, _)
collidePowerUps(w, list, in) ==
    IF list = <<>> THEN w
    ELSE LET k == Head(list)[2]
         IN  IF w.powerUps[k].destroyed \/ k \notin in.touchP
             THEN collidePowerUps(w, Tail(list), in)
             ELSE collidePowerUps([w EXCEPT !.powerUps[k] = PowerUp_destroy(@)],
                                  Tail(list), in)

\* returns the engine and the log of the bullet-enemy hits dispatched
handleCollisions(w, in) ==
    IF ~HasPlayer(w.player) THEN [w |-> w, log |-> {}]
    ELSE LET x1 == collidePlayerBullets([w |-> w, log |-> {}], w.activeBullets, in)
             w2 == collideEnemyBullets(x1.w, x1.w.activeBullets, in)
             w3 == collidePlayerEnemies(w2, w2.activeEnemies, in)
             w4 == collidePowerUps(w3, w3.activePowerUps, in)
         IN  [w |-> w4, log |-> x1.log]

\* this.score += amount; this.score = Math.round(this.score), amount doubled
updateScore(w, amount2) ==
    [w EXCEPT !.score = (2 * w.score + amount2 + 1) \div 2]

\* cleanupList that pools a destroyed entity and still keeps it in its list
RECURSIVE cleanupList_KeepsDestroyed(_, _, _, _)
cleanupList_KeepsDestroyed(w, list, poolName, kept) ==
    IF list = <<>> THEN [w |-> w, kept |-> kept]
    ELSE IF Destroyed(w, Head(list))
         THEN cleanupList_KeepsDestroyed(
                  returnObjectToPool([w EXCEPT !.scene = @ \ {Head(list)}],
                                     Head(list), poolName),
                  Tail(list), poolName, Append(kept, Head(list)))
         ELSE cleanupList_KeepsDestroyed(w, Tail(list), poolName,
                                         Append(kept, Head(list)))

\* cleanupList(list, poolName): returns the engine (pools, scene, flags) and
\* the entities kept
RECURSIVE cleanupList(_, _, _, _)
cleanupList(w, list, poolName, kept) ==
    IF list = <<>> THEN [w |-> w, kept |-> kept]
    ELSE IF Destroyed(w, Head(list))
         THEN cleanupList(returnObjectToPool([w EXCEPT !.scene = @ \ {Head(list)}],
                                             Head(list), poolName),
                          Tail(list), poolName, kept)
         ELSE cleanupList(w, Tail(list), poolName, Append(kept, Head(list)))

\* the enemies pass that counts a destroyed enemy and drops it from the
\* active list without returning it to the pool
RECURSIVE cleanupEnemies_NoReturn(_, _, _, _)
cleanupEnemies_NoReturn(w, list, in, remaining) ==
    IF list = <<>> THEN [w EXCEPT !.activeEnemies = remaining]
    ELSE LET ref == Head(list)
             e == w.enemies[ref[2]]
         IN  IF e.destroyed
             THEN LET w1 == updateScore([w EXCEPT !.enemiesActive = @ - 1], e.score2)
                      w2 == [w1 EXCEPT !.scene = @ \ {ref}]
                      w3 == IF DropOf(in, ref[2]) # "none"
                            THEN spawnPowerUp(w2, DropOf(in, ref[2])) ELSE w2
                  IN  cleanupEnemies_NoReturn(w3, Tail(list), in, remaining)
             ELSE cleanupEnemies_NoReturn(w, Tail(list), in, Append(remaining, ref))

\* the forEach over this.activeEnemies of cleanupEntities
RECURSIVE cleanupEnemies(_, _, _, _)
cleanupEnemies(w, list, in, remaining) ==
    IF list = <<>> THEN [w EXCEPT !.activeEnemies = remaining]
    ELSE LET ref == Head(list)
             e == w.enemies[ref[2]]
         IN  IF e.destroyed
             THEN LET w1 == updateScore([w EXCEPT !.enemiesActive = @ - 1], e.score2)
                      w2 == [w1 EXCEPT !.scene = @ \ {ref}]
                      w3 == IF DropOf(in, ref[2]) # "none"
                            THEN spawnPowerUp(w2, DropOf(in, ref[2])) ELSE w2
                  IN  cleanupEnemies(returnObjectToPool(w3, ref, "enemies"),
                                     Tail(list), in, remaining)
             ELSE cleanupEnemies(w, Tail(list), in, Append(remaining, ref))

cleanupEntities(w, in) ==
    LET b == cleanupList(w, w.activeBullets, "bullets", <<>>)
        w1 == [b.w EXCEPT !.activeBullets = b.kept]
        p == cleanupList(w1, w1.activePowerUps, "powerUps", <<>>)
        w2 == [p.w EXCEPT !.activePowerUps = p.kept]
    IN  cleanupEnemies(w2, w2.activeEnemies, in, <<>>)

\* the interval callback of the new wave starts with spawnedCount = 0
startNextWave(w) ==
    LET wave == w.currentWave + 1
    IN  [w EXCEPT !.currentWave = wave, !.gameState = PLAYING,
                  !.enemiesToSpawn = calculateEnemiesForWave(wave),
                  !.enemiesRemainingInWave = calculateEnemiesForWave(wave),
                  !.enemiesActive = 0,
                  !.spawnTimers = Append(@, 0)]

updateGameState(w, dt) ==
    IF w.gameState = PLAYING
    THEN IF w.enemiesRemainingInWave > 0 /\ w.enemiesActive <= 0
         THEN [w EXCEPT !.gameState = WAVE_TRANSITION,
                        !.waveCooldownTimer = waveCooldownDuration]
         ELSE w
    ELSE IF w.gameState = WAVE_TRANSITION
    THEN LET w1 == [w EXCEPT !.waveCooldownTimer = @ - dt]
         IN  IF w1.waveCooldownTimer <= 0 THEN startNextWave(w1) ELSE w1
    ELSE w

createPlayer(w) == [w EXCEPT !.player = PlayerNew, !.scene = @ \cup {PlayerMesh}]

\* the entity is pooled only if its pool already includes it
RECURSIVE resetRelease(_, _)
resetRelease(w, list) ==
    IF list = <<>> THEN w
    ELSE LET ref == Head(list)
             w1 == [w EXCEPT !.scene = @ \ {ref}]
             w2 == IF ref \in SeqToSet(w1.pools.bullets)
                   THEN returnObjectToPool(w1, ref, "bullets")
                   ELSE IF ref \in SeqToSet(w1.pools.enemies)
                   THEN returnObjectToPool(w1, ref, "enemies")
                   ELSE IF ref \in SeqToSet(w1.pools.powerUps)
                   THEN returnObjectToPool(w1, ref, "powerUps")
                   ELSE w1
         IN  resetRelease(w2, Tail(list))

resetGame(w) ==
    LET w1 == [w EXCEPT !.score = 0, !.currentWave = 0]
        w2 == IF HasPlayer(w1.player)
              THEN [w1 EXCEPT !.player.health = w1.player.maxHealth,
                              !.player.isInvincible = FALSE,
                              !.player.invincibilityTimer = 0]
              ELSE createPlayer(w1)
        w3 == resetRelease(w2, w2.activeBullets \o w2.activeEnemies \o w2.activePowerUps)
    IN  [w3 EXCEPT !.activeBullets = <<>>, !.activeEnemies = <<>>,
                   !.activePowerUps = <<>>,
                   !.enemiesToSpawn = 0, !.enemiesRemainingInWave = 0,
                   !.enemiesActive = 0, !.waveCooldownTimer = 0]

\* transitionToGame without the test of the state it is called in
transitionToGame_FromAnyState(w) ==
    [resetGame(w) EXCEPT !.gameState = WAVE_TRANSITION,
                         !.waveCooldownTimer = waveCooldownDuration]

transitionToGame(w) ==
    IF w.gameState = TITLE \/ w.gameState = GAME_OVER
    THEN [resetGame(w) EXCEPT !.gameState = WAVE_TRANSITION,
                              !.waveCooldownTimer = waveCooldownDuration]
    ELSE w

togglePause(w) ==
    IF w.gameState = PLAYING THEN [w EXCEPT !.gameState = PAUSED]
    ELSE IF w.gameState = PAUSED THEN [w EXCEPT !.gameState = PLAYING]
    ELSE w

\* the callback of a spawn timer that does not look at the game state
spawnTimerCallback_AnyState(w, i, rand, rnd, stagger) ==
    IF w.spawnTimers[i] < w.enemiesToSpawn
    THEN [spawnEnemy(w, rand, rnd, stagger) EXCEPT !.spawnTimers[i] = @ + 1]
    ELSE [w EXCEPT !.spawnTimers =
              SubSeq(w.spawnTimers, 1, i - 1) \o SubSeq(w.spawnTimers, i + 1, Len(w.spawnTimers))]

\* the callback of spawn timer i (setInterval in startNextWave); its
\* spawnedCount is spawnTimers[i]
spawnTimerCallback(w, i, rand, rnd, stagger) ==
    IF w.spawnTimers[i] < w.enemiesToSpawn /\ w.gameState = PLAYING
    THEN [spawnEnemy(w, rand, rnd, stagger) EXCEPT !.spawnTimers[i] = @ + 1]
    ELSE [w EXCEPT !.spawnTimers =
              SubSeq(w.spawnTimers, 1, i - 1) \o SubSeq(w.spawnTimers, i + 1, Len(w.spawnTimers))]

----------------------------------------------------------------------------
(* The engine under its entry points (Spec): start(), the animation frame,  *)
(* the spawn timers, the key handlers and the restart button.  `last'       *)
(* records whether the entry point that ran last made a cleanupEntities     *)
(* pass, whether it was a gameLoop call in a state without simulation       *)
(* (idle), the bullet-enemy hits its collision phase dispatched, the time   *)
(* each enemy has been updated for since it entered Dying, and the doubled  *)
(* score values of the enemies the cleanup passes have pooled since the     *)
(* last resetGame.                                                          *)

\* the frame times and the idle durations drawn while the engine runs
EngineDts == {750}
EngineIdleDurations == {1500}
DropChoices == {"none", "heal"}

PoolOfKind(k) == CASE k = "enemy" -> "enemies" [] k = "bullet" -> "bullets" [] OTHER -> "powerUps"
NumOfKind(k) == CASE k = "enemy" -> NumEnemies [] k = "bullet" -> NumBullets [] OTHER -> NumPowerUps

NoInput == [dt |-> 0, shoot |-> FALSE, cls |-> << >>, rnd |-> << >>, hits |-> {},
            hitPl |-> {}, touchP |-> {}, drops |-> << >>]

\* the time for which update(dt) has run on each enemy since it entered
\* Dying (counted up to DeathDelay), after a step that leads to engine g and
\* called update(dt) on the enemies in upd
DyingClock(g, upd, dt) ==
    [n \in DOMAIN enemies |->
        IF g.enemies[n].currentState \notin {DYING, INACTIVE} THEN 0
        ELSE IF n \in upd /\ enemies[n].currentState = DYING /\ ~enemies[n].destroyed
        THEN Min(last.dyingFor[n] + dt, DeathDelay)
        ELSE last.dyingFor[n]]

\* the doubled score values of the destroyed enemies of a list
RECURSIVE DestroyedScore2(_, _)
DestroyedScore2(w, list) ==
    IF list = <<>> THEN 0
    ELSE (IF w.enemies[Head(list)[2]].destroyed THEN w.enemies[Head(list)[2]].score2 ELSE 0)
         + DestroyedScore2(w, Tail(list))

\* the history after a step without a cleanup pass that leads to engine g
Untouched(g) ==
    [cleaned |-> FALSE, idle |-> FALSE, log |-> {},
     dyingFor |-> DyingClock(g, {}, 0), pooled2 |-> last.pooled2]

Init ==
    /\ weaponManager = NoWeaponManager
    /\ playerController = NoPlayerController
    /\ gameState = TITLE /\ score = 0 /\ currentWave = 0 /\ enemiesToSpawn = 0
    /\ enemiesRemainingInWave = 0 /\ enemiesActive = 0 /\ waveCooldownTimer = 0
    /\ assetsLoaded = FALSE
    /\ activeEnemies = <<>> /\ activeBullets = <<>> /\ activePowerUps = <<>>
    /\ pools = EngineNew.pools /\ scene = {}
    /\ enemies = EngineNew.enemies /\ bullets = EngineNew.bullets
    /\ powerUps = EngineNew.powerUps
    /\ player = NoPlayer
    /\ made = EngineNew.made
    /\ spawnTimers = <<>> /\ startPc = "new"
    /\ last = [cleaned |-> FALSE, idle |-> FALSE, log |-> {},
               dyingFor |-> [n \in 1..NumEnemies |-> 0], pooled2 |-> 0]

\* returnObjectToPool(new X(engine), pool) for instance n of a kind and the
\* instances after it
RECURSIVE preallocate(_, _, _)
preallocate(w, kind, n) ==
    IF n > NumOfKind(kind) THEN w
    ELSE preallocate(returnObjectToPool([w EXCEPT !.made[kind] = n], <<kind, n>>,
                                        PoolOfKind(kind)),
                     kind, n + 1)

\* the embedding page fills the pools before a game is started
Preallocate ==
    /\ made = EngineNew.made
    /\ gameState \in {TITLE, LOADING}
    /\ SetWorld(preallocate(preallocate(preallocate(World, "enemy", 1), "bullet", 1),
                            "powerUp", 1))
    /\ last' = Untouched(World)

\* start() up to the await inside preloadAssets
StartBegin ==
    /\ startPc = "new"
    /\ SetWorld([World EXCEPT !.assetsLoaded = FALSE, !.gameState = LOADING,
                              !.startPc = "preloading"])
    /\ last' = Untouched(World)

\* start() from the end of preloadAssets; the first gameLoop call finds Title
StartFinish ==
    /\ startPc = "preloading"
    /\ LET w1 == IF HasPlayer(player) THEN World ELSE createPlayer(World)
       IN  SetWorld([w1 EXCEPT !.gameState = TITLE, !.startPc = "running"])
    /\ last' = Untouched(World)

ActiveIds(list) == {ref[2] : ref \in SeqToSet(list)}

\* the distance classes an enemy can be given in a tick
ClsChoices(e) ==
    IF e.destroyed THEN {"far"}
    ELSE IF e.currentState = DYING THEN {"far", "touch"}
    ELSE {"far", "chase", "attack", "touch"}

\* the pairs and the entities whose boxes can intersect in the collision
\* phase of a tick, u being the engine after updateEntities
PlayerBulletsIn(u) ==
    {b \in ActiveIds(u.activeBullets) :
        u.bullets[b].isPlayerBullet /\ ~u.bullets[b].destroyed}
EnemyBulletsIn(u) ==
    {b \in ActiveIds(u.activeBullets) :
        ~u.bullets[b].isPlayerBullet /\ ~u.bullets[b].destroyed}
HittableEnemiesIn(u) ==
    {m \in ActiveIds(u.activeEnemies) :
        ~u.enemies[m].destroyed /\ ~u.enemies[m].isInvincible}
DestroyedEnemiesIn(u) ==
    {m \in ActiveIds(u.activeEnemies) : u.enemies[m].destroyed}
LivePowerUpsIn(u) ==
    {k \in ActiveIds(u.activePowerUps) : ~u.powerUps[k].destroyed}

\* the caps of the model on the waves started and the spawn timers alive
WithinCaps(w) == w.currentWave <= MaxWave /\ Len(w.spawnTimers) <= MaxTimers

\* gameLoop, case PLAYING: updateEntities, handleCollisions, cleanupEntities,
\* updateGameState
GameLoopPlaying ==
    /\ startPc = "running"
    /\ gameState = PLAYING
    /\ \E dt \in EngineDts, shoot \in BOOLEAN, r \in EngineIdleDurations :
       \E cls \in [ActiveIds(activeEnemies) -> {"far", "chase", "attack", "touch"}] :
         /\ \A n \in DOMAIN cls : cls[n] \in ClsChoices(enemies[n])
         /\ shoot => PlayerLive(player)
         /\ \E u \in {updateEntities(World,
                          [NoInput EXCEPT !.dt = dt, !.shoot = shoot, !.cls = cls,
                                          !.rnd = [n \in DOMAIN cls |-> r]],
                          FALSE)} :
            \E hits \in SUBSET (PlayerBulletsIn(u) \X HittableEnemiesIn(u)),
               hitPl \in SUBSET EnemyBulletsIn(u),
               touchP \in SUBSET LivePowerUpsIn(u),
               drops \in [DestroyedEnemiesIn(u) -> DropChoices] :
              \E in \in {[NoInput EXCEPT !.dt = dt, !.cls = cls, !.hits = hits,
                                          !.hitPl = hitPl, !.touchP = touchP,
                                          !.drops = drops]} :
              \E c \in {handleCollisions(u, in)} :
              \E k \in {cleanupEntities(c.w, in)} :
              \E g \in {updateGameState(k, dt)} :
                /\ WithinCaps(g)
                /\ SetWorld(g)
                /\ last' = [cleaned |-> TRUE, idle |-> FALSE, log |-> c.log,
                            dyingFor |-> DyingClock(g, ActiveIds(activeEnemies), dt),
                            pooled2 |-> last.pooled2
                                        + DestroyedScore2(c.w, c.w.activeEnemies)]

\* gameLoop, case WAVE_TRANSITION: updateEntities(dt, true), cleanupEntities,
\* updateGameState
GameLoopWaveTransition ==
    /\ startPc = "running"
    /\ gameState = WAVE_TRANSITION
    /\ \E dt \in EngineDts, shoot \in BOOLEAN :
         /\ shoot => PlayerLive(player)
         /\ \E u \in {updateEntities(World,
                          [NoInput EXCEPT !.dt = dt, !.shoot = shoot], TRUE)} :
            \E drops \in [DestroyedEnemiesIn(u) -> DropChoices] :
              \E k \in {cleanupEntities(u, [NoInput EXCEPT !.dt = dt, !.drops = drops])} :
              \E g \in {updateGameState(k, dt)} :
                /\ WithinCaps(g)
                /\ SetWorld(g)
                /\ last' = [cleaned |-> TRUE, idle |-> FALSE, log |-> {},
                            dyingFor |-> DyingClock(g, {}, dt),
                            pooled2 |-> last.pooled2
                                        + DestroyedScore2(u, u.activeEnemies)]

\* gameLoop in the other states: nothing is updated
GameLoopOther ==
    /\ startPc = "running"
    /\ gameState \notin {PLAYING, WAVE_TRANSITION}
    /\ SetWorld(World)
    /\ last' = [Untouched(World) EXCEPT !.idle = TRUE]

\* a spawn timer elapses
SpawnTimerFire ==
    \E i \in 1..Len(spawnTimers), rand \in RandDraws, rnd \in EngineIdleDurations,
       stagger \in ShootStagger :
        /\ spawnTimers[i] < MaxSpawned \/ gameState # PLAYING
        /\ \E g \in {spawnTimerCallback(World, i, rand, rnd, stagger)} :
             SetWorld(g) /\ last' = Untouched(g)

\* handleKeyDown with e.code = 'KeyP'
KeyP ==
    /\ startPc # "new"
    /\ SetWorld(IF gameState = PLAYING \/ gameState = PAUSED
                THEN togglePause(World) ELSE World)
    /\ last' = Untouched(World)

\* handleKeyDown with e.code = 'Enter'
KeyEnter ==
    /\ startPc # "new"
    /\ SetWorld(IF gameState = TITLE /\ assetsLoaded THEN transitionToGame(World)
                ELSE IF gameState = GAME_OVER THEN transitionToGame(World)
                ELSE World)
    /\ last' = [Untouched(World) EXCEPT
                   !.pooled2 = IF (gameState = TITLE /\ assetsLoaded) \/ gameState = GAME_OVER
                               THEN 0 ELSE @]

\* click on #restartButton
RestartClick ==
    /\ SetWorld(transitionToGame(World))
    /\ last' = [Untouched(World) EXCEPT
                   !.pooled2 = IF gameState \in {TITLE, GAME_OVER} THEN 0 ELSE @]

Next ==
    \/ Preallocate
    \/ StartBegin
    \/ StartFinish
    \/ GameLoopPlaying
    \/ GameLoopWaveTransition
    \/ GameLoopOther
    \/ SpawnTimerFire
    \/ KeyP
    \/ KeyEnter
    \/ RestartClick

Spec == Init /\ [][Next]_vars

\* the active list and the free-list of the kind of an instance
ActiveListOf(w, kind) ==
    CASE kind = "enemy" -> w.activeEnemies
      [] kind = "bullet" -> w.activeBullets
      [] OTHER -> w.activePowerUps
IsActive(w, ref) == ref \in SeqToSet(ActiveListOf(w, ref[1]))
IsPooled(w, ref) == ref \in SeqToSet(w.pools[PoolOfKind(ref[1])])
InAnyActiveList(w, ref) ==
    ref \in SeqToSet(w.activeEnemies) \cup SeqToSet(w.activeBullets)
            \cup SeqToSet(w.activePowerUps)
NoDuplicates(s) == \A i, j \in 1..Len(s) : s[i] = s[j] => i = j

\* C1: in every reachable state every Bullet, Enemy and PowerUp instance that
\* a pool has handed out is in exactly one of the active list of its kind and
\* the free-list of its kind, never in both and never in neither.  (An
\* instance that was constructed and never handed out is in its free-list, so
\* the statement is made for every constructed instance.)
C1_ActiveXorPooled ==
    \A ref \in Constructed(World) : IsActive(World, ref) # IsPooled(World, ref)

\* C2: immediately after every cleanupEntities pass, for every entity,
\* _destroyed is true if and only if the entity is absent from all the active
\* lists.
C2_DestroyedIffNotActive ==
    last.cleaned =>
        \A ref \in Constructed(World) :
            Destroyed(World, ref) <=> ~InAnyActiveList(World, ref)

\* C6: in every reachable state no instance is in two different free-lists,
\* none is more than once in one free-list and none is more than once in an
\* active list.
C6_NoDoubleReleaseOrActivation ==
    /\ \A p \in PoolNames : NoDuplicates(pools[p])
    /\ \A p, q \in PoolNames : p # q => SeqToSet(pools[p]) \cap SeqToSet(pools[q]) = {}
    /\ NoDuplicates(activeEnemies)
    /\ NoDuplicates(activeBullets)
    /\ NoDuplicates(activePowerUps)

\* a cleanup pass has just released the bullet whose hit killed an enemy of
\* 15 health: with bullets of 10 damage that is the second hit, so a bullet
\* was released, activated again and released again
C6_Witness ==
    /\ last.cleaned
    /\ pools.bullets # <<>>
    /\ \E ev \in last.log :
          /\ ev.dealt > 0
          /\ enemies[ev.enemy].currentState = DYING
          /\ enemies[ev.enemy].type = "basic"

\* C10: in collision dispatch a player bullet overlapping an enemy is
\* destroyed by that collision only if the enemy's takeDamage returned a
\* non-zero amount.
C10_BulletDestroyedOnlyIfDamaged ==
    \A ev \in last.log : ev.destroys => ev.dealt > 0

\* enemy n is in the enemies free-list
EnemyPooled(n) == <<"enemy", n>> \in SeqToSet(pools.enemies)

C16_ScoreIsSumOfPooled == 2 * score = last.pooled2

(* C17: every enemy has health >= 0, and health = 0 exactly when it is       *)
(* Dying or Inactive; an accepted hit that brings health to 0 leaves the    *)
(* enemy in Dying at the end of the same call.                              *)
C17_HealthZeroIffDying ==
    /\ \A n \in 1..made.enemy :
          /\ enemies[n].health >= 0
          /\ enemies[n].health = 0 <=> enemies[n].currentState \in {DYING, INACTIVE}
    /\ \A ev \in last.log : (ev.dealt > 0 /\ ev.health = 0) => ev.state = DYING

\* a hit larger than the health left: 15 - 10 - 10 is clamped to 0
C17_Witness ==
    \E ev \in last.log :
        /\ ev.dealt > 0 /\ ev.health = 0 /\ ev.state = DYING
        /\ enemies[ev.enemy].type = "basic"
        /\ enemies[ev.enemy].currentState = DYING

\* the changes of gameState the state graph lists
ListedStateChanges ==
    { <<LOADING, TITLE>>, <<TITLE, WAVE_TRANSITION>>, <<GAME_OVER, WAVE_TRANSITION>>,
      <<WAVE_TRANSITION, PLAYING>>, <<PLAYING, WAVE_TRANSITION>>,
      <<PLAYING, PAUSED>>, <<PAUSED, PLAYING>>, <<PLAYING, GAME_OVER>> }

\* the changes start() makes on entering preloadAssets: from Title, the state
\* the constructor leaves, or from WaveTransition when the restart button was
\* clicked before start()
StartStateChanges == { <<TITLE, LOADING>>, <<WAVE_TRANSITION, LOADING>> }

IdleStates == {PAUSED, TITLE, LOADING, GAME_OVER}

\* the entities an active list holds
Listed(list) == { list[i] : i \in DOMAIN list }

(* C30: a gameLoop call made while gameState is Paused, Title, Loading or    *)
(* GameOver changes no entity, no active list, no pool and none of score,   *)
(* currentWave, enemiesActive and waveCooldownTimer; and no step taken      *)
(* while the state is not Playing spawns an enemy.                          *)
C30_NoSimulationOutsidePlaying ==
    [][/\ (gameState \in IdleStates /\ startPc = "running" /\ last'.idle)
              => /\ UNCHANGED <<enemies, bullets, powerUps, player>>
                 /\ UNCHANGED <<activeEnemies, activeBullets, activePowerUps, pools>>
                 /\ UNCHANGED <<score, currentWave, enemiesActive, waveCooldownTimer>>
       /\ last'.idle => gameState \in IdleStates
       /\ gameState # PLAYING
              => /\ Listed(activeEnemies') \subseteq Listed(activeEnemies)
                 /\ enemiesActive' <= enemiesActive
                 /\ \A n \in 1..NumEnemies :
                        enemies[n].currentState = INACTIVE
                            => enemies'[n].currentState = INACTIVE]_vars

\* a gameLoop call has just run in a paused game with an enemy active and a
\* spawn timer pending
C30_Witness ==
    /\ last.idle /\ gameState = PAUSED
    /\ activeEnemies # <<>> /\ spawnTimers # <<>>

(* C32: the game moves from Playing to WaveTransition only when the          *)
(* remaining-to-spawn counter is 0 and no enemy is active, and the step     *)
(* sets the cooldown timer to 3000 ms.                                      *)
C32_WaveCompleteOnlyWhenAllSpawned ==
    [][(gameState = PLAYING /\ gameState' = WAVE_TRANSITION)
           => /\ enemiesRemainingInWave = 0
              /\ activeEnemies' = <<>> /\ enemiesActive' = 0
              /\ waveCooldownTimer' = waveCooldownDuration]_vars

(* C36: after the player has died (GameOver) and transitionToGame has run,   *)
(* the player object is live again: health = maxHealth, not destroyed and   *)
(* not invincible.                                                          *)
C36_PlayerLiveAfterRestart ==
    [][(gameState = GAME_OVER /\ gameState' = WAVE_TRANSITION)
           => /\ PlayerLive(player')
              /\ player'.health = player'.maxHealth
              /\ ~player'.isInvincible]_vars

(* C37: the counter enemiesActive equals the number of entries of            *)
(* activeEnemies in every state, and so is never negative.                  *)
C37_EnemiesActiveIsListLength ==
    enemiesActive = Len(activeEnemies) /\ enemiesActive >= 0

\* in the second wave the cleanup pass of the tick that just ran has left no
\* enemy active, after an enemy was spawned, killed and pooled
C37_Witness ==
    /\ last.cleaned /\ last.pooled2 > 0 /\ currentWave = 2
    /\ enemiesActive = 0 /\ activeEnemies = <<>>

(* C40: once start() has completed and the game is in Title, an Enter key    *)
(* press moves the game to WaveTransition.                                  *)
C40_EnterStartsFromTitle ==
    [][(KeyEnter /\ startPc = "running" /\ gameState = TITLE)
           => gameState' = WAVE_TRANSITION]_vars

----------------------------------------------------------------------------
(* The engine with its animation frame scheduled for ever (SpecLive):       *)
(* gameLoop ends by requesting the next frame, so the tick of a game in     *)
(* Playing keeps running: weak fairness of GameLoopPlaying, written with    *)
(* its enabling condition (TickCanRun) and with the step recognised by the  *)
(* cleanup pass it records (GameLoopPlaying is the only action that starts  *)
(* in Playing and sets last.cleaned).                                       *)
TickCanRun == startPc = "running" /\ gameState = PLAYING

PlayingTick == TickCanRun /\ last'.cleaned

SpecLive ==
    /\ Init /\ [][Next]_vars
    /\ ([]<>~TickCanRun \/ []<><<PlayingTick>>_vars)

\* enemy n is Dying and in activeEnemies
ActiveDying(n) ==
    enemies[n].currentState = DYING /\ n \in ActiveIds(activeEnemies)

\* enemy n is Inactive, out of activeEnemies and in the enemies pool
BackInPool(n) ==
    /\ enemies[n].currentState = INACTIVE
    /\ n \notin ActiveIds(activeEnemies)
    /\ EnemyPooled(n)

(* C15: every active enemy that is Dying is eventually Inactive, out of      *)
(* activeEnemies and in the enemies pool, unless the game stops ticking in  *)
(* Playing (it is paused or over) before that.                              *)
C15_DyingEventuallyPooled ==
    \A n \in 1..NumEnemies :
        ActiveDying(n) ~> (BackInPool(n) \/ gameState \in {PAUSED, GAME_OVER})

\* the kill that ends the wave has been pooled and scored
C15_Witness ==
    \E n \in 1..NumEnemies :
        /\ BackInPool(n) /\ last.cleaned /\ last.dyingFor[n] >= DeathDelay
        /\ gameState = WAVE_TRANSITION /\ score > 0

----------------------------------------------------------------------------
(* One Enemy under its public methods (SpecEnemy).  The enemy is             *)
(* enemies[1]; engine.player is live or not and the distance class is what  *)
(* the caller's world makes it.  `last' records the call just made: the     *)
(* method, its argument and return value, the enemy before the call, and    *)
(* for update its inputs and whether it read engine.player.mesh, and for    *)
(* takeDamage the outcome of the previous takeDamage call together with     *)
(* the time the update(dt) calls in between have accumulated (saturating at *)
(* invincibilityDuration).                                                  *)

EnemyDts == {250, 1500}
DamageAmounts == {8, 15}
EnemyTestTypes == {"basic", "shooter"}
ProxClasses == {"attack", "chase", "far"}

engineVarsButEnemies ==
    <<gameState, score, currentWave, enemiesToSpawn, enemiesRemainingInWave,
      enemiesActive, waveCooldownTimer, assetsLoaded,
      activeEnemies, activeBullets, activePowerUps, pools, scene,
      bullets, powerUps, player, made, spawnTimers, startPc, weaponManager,
      playerController>>

InitEnemy ==
    /\ weaponManager = NoWeaponManager
    /\ playerController = NoPlayerController
    /\ gameState = TITLE /\ score = 0 /\ currentWave = 0 /\ enemiesToSpawn = 0
    /\ enemiesRemainingInWave = 0 /\ enemiesActive = 0 /\ waveCooldownTimer = 0
    /\ assetsLoaded = FALSE
    /\ activeEnemies = <<>> /\ activeBullets = <<>> /\ activePowerUps = <<>>
    /\ pools = EngineNew.pools /\ scene = {}
    /\ enemies = EngineNew.enemies /\ bullets = EngineNew.bullets
    /\ powerUps = EngineNew.powerUps
    /\ player = NoPlayer
    /\ made = [enemy |-> 1, bullet |-> 0, powerUp |-> 0]
    /\ spawnTimers = <<>> /\ startPc = "new"
    /\ last = [op |-> "new", amount |-> 0, ret |-> 0, pre |-> EnemyNew, shot |-> FALSE, live |-> FALSE, prox |-> "far", dt |-> 0,
                deref |-> FALSE, prevNear |-> FALSE,
               prior |-> "none", gap |-> 0, hit |-> "none", acc |-> 0]

\* spawnEnemy is the only caller of reset, on an instance taken from the pool
EnemyResetCall ==
    /\ enemies[1].destroyed
    /\ \E type \in EnemyTestTypes, rnd \in IdleDurations, stagger \in ShootStagger :
         /\ enemies' = [enemies EXCEPT ![1] = Enemy_reset(enemies[1], type, rnd, stagger)]
         /\ last' = [op |-> "reset", amount |-> 0, ret |-> 0, pre |-> enemies[1],
                     shot |-> FALSE, live |-> FALSE, prox |-> "far", dt |-> 0,
                deref |-> FALSE, prevNear |-> FALSE, prior |-> "none", gap |-> 0, hit |-> "none",
                     acc |-> 0]
    /\ UNCHANGED engineVarsButEnemies

EnemyUpdateCall ==
    /\ \E dt \in EnemyDts, playerLive \in BOOLEAN, prox \in ProxClasses,
          rnd \in IdleDurations :
         LET r == Enemy_update(enemies[1], dt, playerLive, prox, rnd)
         IN  /\ enemies' = [enemies EXCEPT ![1] = r.e]
             /\ last' = [op |-> "update", amount |-> 0, ret |-> 0, pre |-> enemies[1],
                         shot |-> r.shot, live |-> playerLive, prox |-> prox,
                         dt |-> dt, deref |-> r.deref,
                         prevNear |-> /\ last.op = "update" /\ last.live
                                      /\ last.prox = "attack"
                                      /\ last.pre.currentState = IDLE, prior |-> "none", gap |-> 0,
                         hit |-> last.hit,
                         acc |-> Min(last.acc + dt, invincibilityDuration)]
    /\ UNCHANGED engineVarsButEnemies

EnemyTakeDamageCall ==
    /\ \E amount \in DamageAmounts :
         LET r == Enemy_takeDamage(enemies[1], amount)
         IN  /\ enemies' = [enemies EXCEPT ![1] = r.e]
             /\ last' = [op |-> "takeDamage", amount |-> amount, ret |-> r.ret,
                         pre |-> enemies[1], shot |-> FALSE, live |-> FALSE, prox |-> "far", dt |-> 0,
                deref |-> FALSE, prevNear |-> FALSE,
                         prior |-> last.hit, gap |-> last.acc,
                         hit |-> IF r.e = enemies[1] THEN "ignored" ELSE "accepted",
                         acc |-> 0]
    /\ UNCHANGED engineVarsButEnemies

EnemyDestroyCall ==
    /\ enemies' = [enemies EXCEPT ![1] = Enemy_destroy(enemies[1])]
    /\ last' = [op |-> "destroy", amount |-> 0, ret |-> 0, pre |-> enemies[1],
                shot |-> FALSE, live |-> FALSE, prox |-> "far", dt |-> 0,
                deref |-> FALSE, prevNear |-> FALSE, prior |-> "none", gap |-> 0, hit |-> "none", acc |-> 0]
    /\ UNCHANGED engineVarsButEnemies

NextEnemy == EnemyResetCall \/ EnemyUpdateCall \/ EnemyTakeDamageCall \/ EnemyDestroyCall

SpecEnemy == InitEnemy /\ [][NextEnemy]_vars

\* the fields of an enemy that takeDamage may write
DamageFields(e) ==
    <<e.health, e.currentState, e.stateTimer, e.isInvincible, e.invincibilityTimer>>

\* the guard of takeDamage held before the call
Ignorable(e) ==
    e.isInvincible \/ e.destroyed \/ e.currentState = DYING \/ e.currentState = INACTIVE

(* C7: takeDamage called while the enemy is invincible, destroyed, Dying or  *)
(* Inactive returns 0 and leaves health, currentState, stateTimer,          *)
(* isInvincible and invincibilityTimer as they were.                        *)
C7_IgnoredHitChangesNothing ==
    (last.op = "takeDamage" /\ Ignorable(last.pre))
        => /\ last.ret = 0
           /\ DamageFields(enemies[1]) = DamageFields(last.pre)

\* a hit on an enemy that is invincible but otherwise able to take damage
C7_Witness ==
    /\ last.op = "takeDamage"
    /\ last.pre.isInvincible /\ ~last.pre.destroyed
    /\ last.pre.currentState \in {IDLE, CHASING, ATTACKING}
    /\ last.pre.health > 0
    /\ last.ret = 0

\* the second call recorded damage
SecondApplied ==
    /\ last.ret = last.amount
    /\ enemies[1].health = Max(0, last.pre.health - last.amount)

\* the second call recorded no damage
SecondIgnored ==
    /\ last.ret = 0
    /\ enemies[1].health = last.pre.health

\* two takeDamage calls with only update calls in between, the first one accepted
TwoHits == last.op = "takeDamage" /\ last.prior = "accepted"

(* C8 as stated: two takeDamage calls with less than 300 ms of update time   *)
(* in between record the first call's damage only; with at least 300 ms and *)
(* the enemy not Dying the second call is applied.                          *)
C8_Original ==
    TwoHits =>
        /\ (last.gap < invincibilityDuration => SecondIgnored)
        /\ (last.gap >= invincibilityDuration /\ last.pre.currentState # DYING
               => SecondApplied)

(* C8 amended: ... with at least 300 ms and the enemy neither Dying nor      *)
(* Inactive (destroyed) at the second call, the second call is applied.     *)
C8_WindowBlocksSecondHit ==
    TwoHits =>
        /\ (last.gap < invincibilityDuration => SecondIgnored)
        /\ (last.gap >= invincibilityDuration
              /\ last.pre.currentState \notin {DYING, INACTIVE} /\ ~last.pre.destroyed
               => SecondApplied)

\* a second hit inside the window on an enemy that survived the first one
C8_Witness ==
    /\ TwoHits
    /\ last.gap > 0 /\ last.gap < invincibilityDuration
    /\ last.pre.currentState \in {IDLE, CHASING, ATTACKING}
    /\ SecondIgnored

\* a second hit after the window that is applied
C8_WitnessApplied ==
    /\ TwoHits
    /\ last.gap >= invincibilityDuration
    /\ SecondApplied /\ last.ret > 0

(* C9: the value takeDamage returns is the amount removed from health       *)
(* (health before minus health after), also when health is clamped at 0,    *)
(* and 0 when the call is ignored.                                          *)
C9_ReturnIsDamageDealt ==
    last.op = "takeDamage" => last.ret = last.pre.health - enemies[1].health

\* the update call just made found the enemy in state st, not destroyed
UpdateFrom(st) ==
    last.op = "update" /\ last.pre.currentState = st /\ ~last.pre.destroyed

\* the distance class of the update call just made is within chaseDistance
WithinChase == last.prox \in {"chase", "attack"}

(* C11: an Idle enemy that is within chaseDistance of a live player at an    *)
(* update tick is Chasing after that tick, whether or not its idle          *)
(* stateTimer had expired.                                                  *)
C11_IdleNearPlayerChases ==
    (UpdateFrom(IDLE) /\ last.live /\ WithinChase)
        => enemies[1].currentState = CHASING

\* the tick at which the idle timer expires is also the tick that starts the chase
C11_Witness ==
    /\ UpdateFrom(IDLE) /\ last.live /\ WithinChase
    /\ last.pre.stateTimer - last.dt <= 0
    /\ enemies[1].currentState = CHASING

(* C12 as stated: an Idle enemy within chaseDistance and shootDistance of a  *)
(* live player at an update tick is Attacking after that tick.              *)
C12_Original ==
    (UpdateFrom(IDLE) /\ last.live /\ last.prox = "attack")
        => enemies[1].currentState = ATTACKING

(* C12 amended: that tick takes the enemy from Idle to Chasing only; the     *)
(* next update tick at which it is still within shootDistance of a live     *)
(* player finds it Chasing and takes it to Attacking.                       *)
C12_ChasingThenAttacking ==
    /\ (UpdateFrom(IDLE) /\ last.live /\ last.prox = "attack")
           => enemies[1].currentState = CHASING
    /\ (last.op = "update" /\ last.prevNear /\ last.live /\ last.prox = "attack")
           => /\ last.pre.currentState = CHASING
              /\ enemies[1].currentState = ATTACKING

\* the second of two consecutive ticks within both distances
C12_Witness ==
    /\ last.op = "update" /\ last.prevNear /\ last.live /\ last.prox = "attack"
    /\ enemies[1].currentState = ATTACKING

\* the changes of currentState the claim lists; Attacking -> Idle only when
\* no player is live
ListedChange(from, to) ==
    \/ from = INACTIVE /\ to = IDLE /\ last.op = "reset"
    \/ from = IDLE /\ to = CHASING
    \/ from = CHASING /\ to \in {ATTACKING, IDLE}
    \/ from = ATTACKING /\ to = CHASING
    \/ from = ATTACKING /\ to = IDLE /\ last.op = "update" /\ ~last.live
    \/ from \in {IDLE, CHASING, ATTACKING} /\ to = DYING
    \/ from = DYING /\ to = INACTIVE

\* the call just made changed currentState
StateChanged == last.op # "new" /\ last.pre.currentState # enemies[1].currentState

C18_NoPlayerDegradesSafely ==
    (last.op = "update" /\ ~last.live /\ ~last.pre.destroyed) =>
        /\ ~last.deref
        /\ last.pre.currentState \in {CHASING, ATTACKING}
               => enemies[1].currentState = IDLE
        /\ last.pre.currentState = IDLE
               => /\ enemies[1].currentState = IDLE
                  /\ enemies[1].stateTimer = Max(last.pre.stateTimer - last.dt, TimerFloor)
        /\ last.pre.currentState = DYING
               => IF last.pre.stateTimer - last.dt <= 0
                  THEN enemies[1].destroyed /\ enemies[1].currentState = INACTIVE
                  ELSE /\ ~enemies[1].destroyed /\ enemies[1].currentState = DYING
                       /\ enemies[1].stateTimer = last.pre.stateTimer - last.dt

\* an Attacking enemy loses its target
C18_Witness ==
    /\ last.op = "update" /\ ~last.live
    /\ last.pre.currentState = ATTACKING
    /\ enemies[1].currentState = IDLE

----------------------------------------------------------------------------
(* One Bullet in a running game (SpecBullet): the game is in its first wave *)
(* with one enemy spawned; spawnBullet is called with or without its        *)
(* origin and direction, update and destroy are called on the bullet, and   *)
(* the collision and cleanup phases run.  `last' records the call just      *)
(* made, the bullet before it, whether the bullet is in the life that began *)
(* with a successful reset and nobody but update has ended (born), the      *)
(* update time accumulated in that life (up to maxLifespan), whether the    *)
(* bullet was last spawned without origin or direction and is not yet       *)
(* cleaned up (nulls), and whether the collision phase just run dispatched  *)
(* a hit or changed the player or an enemy (touched).                       *)

BulletDts == {750, 1500}
\* the damage of a player's bullet and of an enemy's
BulletDamages == {PlayerAttack, EnemyBulletDamage}

\* the engine after start(), a click on restart, the cooldown and the first
\* spawn of wave 1, with the pools filled before the start
BulletWorld0 ==
    LET w0 == preallocate(preallocate(preallocate(EngineNew, "enemy", 1), "bullet", 1),
                          "powerUp", 1)
        w1 == [createPlayer(w0) EXCEPT !.startPc = "running"]
        w2 == transitionToGame(w1)
        w3 == startNextWave([w2 EXCEPT !.waveCooldownTimer = 0])
    IN  spawnTimerCallback(w3, 1, 0, 1500, 0)

BulletIds == 1..NumBullets

NoBulletCall ==
    [op |-> "new", ref |-> 0, pre |-> [n \in BulletIds |-> BulletNew],
     argsOk |-> TRUE, dt |-> 0,
     born |-> [n \in BulletIds |-> FALSE], acc |-> [n \in BulletIds |-> 0],
     nulls |-> {}, apart |-> TRUE, cleaned |-> {}]

InitBullet ==
    /\ weaponManager = NoWeaponManager
    /\ playerController = NoPlayerController
    /\ gameState = BulletWorld0.gameState /\ score = BulletWorld0.score
    /\ currentWave = BulletWorld0.currentWave
    /\ enemiesToSpawn = BulletWorld0.enemiesToSpawn
    /\ enemiesRemainingInWave = BulletWorld0.enemiesRemainingInWave
    /\ enemiesActive = BulletWorld0.enemiesActive
    /\ waveCooldownTimer = BulletWorld0.waveCooldownTimer
    /\ assetsLoaded = BulletWorld0.assetsLoaded
    /\ activeEnemies = BulletWorld0.activeEnemies
    /\ activeBullets = BulletWorld0.activeBullets
    /\ activePowerUps = BulletWorld0.activePowerUps
    /\ pools = BulletWorld0.pools /\ scene = BulletWorld0.scene
    /\ enemies = BulletWorld0.enemies /\ bullets = BulletWorld0.bullets
    /\ powerUps = BulletWorld0.powerUps /\ player = BulletWorld0.player
    /\ made = BulletWorld0.made /\ spawnTimers = BulletWorld0.spawnTimers
    /\ startPc = BulletWorld0.startPc
    /\ last = NoBulletCall

\* the call just made, with what is remembered of every bullet
BulletCall(op, ref) ==
    [NoBulletCall EXCEPT !.op = op, !.ref = ref, !.pre = bullets,
                         !.born = last.born, !.acc = last.acc, !.nulls = last.nulls]

\* engine.spawnBullet(originPosition, direction, damage, isPlayerBullet); ref
\* is the bullet the pool hands out, 0 when the pool is empty
BulletSpawnCall ==
    \E argsOk \in BOOLEAN, damage \in BulletDamages, isPlayerBullet \in BOOLEAN :
      \E g \in {spawnBullet(World, argsOk, damage, isPlayerBullet)},
         ref \in {IF pools.bullets = <<>> THEN 0 ELSE pools.bullets[Len(pools.bullets)][2]} :
        /\ SetWorld(g)
        /\ last' = IF ref = 0
                   THEN [BulletCall("spawn", 0) EXCEPT !.argsOk = argsOk]
                   ELSE [BulletCall("spawn", ref) EXCEPT
                           !.argsOk = argsOk, !.born[ref] = argsOk, !.acc[ref] = 0,
                           !.nulls = IF argsOk THEN @ \ {ref} ELSE @ \cup {ref}]

\* bullet.update(dt)
BulletUpdateCall ==
    \E n \in BulletIds, dt \in BulletDts :
        /\ SetWorld([World EXCEPT !.bullets[n] = Bullet_update(@, dt)])
        /\ last' = [BulletCall("update", n) EXCEPT
                      !.dt = dt, !.acc[n] = Min(@ + dt, maxLifespan)]

\* bullet.destroy() called from outside the bullet
BulletDestroyCall ==
    \E n \in BulletIds :
        /\ SetWorld([World EXCEPT !.bullets[n] = Bullet_destroy(@)])
        /\ last' = [BulletCall("destroy", n) EXCEPT !.born[n] = FALSE]

\* the collision input without the intersections of the bullets in skip
WithoutBullets(in, skip) ==
    [in EXCEPT !.hits = {h \in @ : h[1] \notin skip}, !.hitPl = @ \ skip]

\* handleCollisions, any active bullet's volume intersecting any active
\* enemy's, the player's, both or neither; apart: the phase did what it
\* would have done had the bullets spawned without origin or direction
\* intersected nothing
BulletCollisionPass ==
    \E hits \in SUBSET (ActiveIds(activeBullets) \X ActiveIds(activeEnemies)),
       hitPl \in SUBSET ActiveIds(activeBullets) :
      \E in \in {[NoInput EXCEPT !.hits = hits, !.hitPl = hitPl]} :
        \E c \in {handleCollisions(World, in)} :
          /\ hits # {} \/ hitPl # {}
          /\ SetWorld(c.w)
          /\ last' = [BulletCall("collide", 0) EXCEPT
                        !.born = [n \in BulletIds |->
                                    /\ last.born[n]
                                    /\ c.w.bullets[n].destroyed = bullets[n].destroyed],
                        !.apart = (c = handleCollisions(World, WithoutBullets(in, last.nulls)))]

\* cleanupEntities
BulletCleanupPass ==
    \E k \in {cleanupEntities(World, NoInput)} :
        /\ SetWorld(k)
        /\ last' = [BulletCall("cleanup", 0) EXCEPT !.nulls = {}, !.cleaned = last.nulls]

NextBullet ==
    \/ BulletSpawnCall
    \/ BulletUpdateCall
    \/ BulletDestroyCall
    \/ BulletCollisionPass
    \/ BulletCleanupPass

SpecBullet == InitBullet /\ [][NextBullet]_vars

(* C19: a bullet that was reset and is destroyed by nobody else is           *)
(* destroyed exactly when the update time accumulated since the reset has   *)
(* reached 3.0 s; update on a destroyed bullet changes neither its position *)
(* nor its lifespan timer, and destroy on a destroyed bullet changes        *)
(* nothing.                                                                 *)
C19_LifespanEndsAtThreeSeconds ==
    /\ \A n \in BulletIds :
           last.born[n] => (bullets[n].destroyed <=> last.acc[n] >= maxLifespan)
    /\ (last.op = "update" /\ last.pre[last.ref].destroyed)
           => /\ bullets[last.ref].travel = last.pre[last.ref].travel
              /\ bullets[last.ref].lifespanTimer = last.pre[last.ref].lifespanTimer
    /\ (last.op = "destroy" /\ last.pre[last.ref].destroyed)
           => bullets[last.ref] = last.pre[last.ref]

\* the update that ends the bullet's life, exactly at 3.0 s
C19_Witness ==
    /\ last.op = "update" /\ last.born[last.ref] /\ ~last.pre[last.ref].destroyed
    /\ last.pre[last.ref].lifespanTimer + last.dt = maxLifespan
    /\ bullets[last.ref].destroyed

\* the bullet is in the bullets free-list and not active
BulletPooled(n) ==
    /\ <<"bullet", n>> \in SeqToSet(pools.bullets)
    /\ n \notin ActiveIds(activeBullets)

(* C20: spawnBullet without origin or direction leaves the bullet it         *)
(* acquired destroyed and invisible, with damage, speed and lifespan timer  *)
(* unchanged; until it is cleaned up that bullet does not move and takes no *)
(* part in a collision, and the next cleanup pass puts it back in the       *)
(* bullets pool.                                                            *)
C20_NullSpawnSelfDestroys ==
    /\ (last.op = "spawn" /\ last.ref # 0 /\ ~last.argsOk)
           => /\ bullets[last.ref].destroyed /\ ~bullets[last.ref].visible
              /\ bullets[last.ref].damage = last.pre[last.ref].damage
              /\ bullets[last.ref].speed = last.pre[last.ref].speed
              /\ bullets[last.ref].lifespanTimer = last.pre[last.ref].lifespanTimer
              /\ bullets[last.ref].travel = last.pre[last.ref].travel
    /\ \A n \in last.nulls :
           bullets[n].destroyed /\ bullets[n].travel = last.pre[n].travel
    /\ last.op = "collide" => last.apart
    /\ last.op = "cleanup" => \A n \in last.cleaned : BulletPooled(n)

\* a bullet used before, then spawned without direction, and cleaned up
C20_Witness ==
    /\ last.op = "cleanup"
    /\ \E n \in last.cleaned :
           /\ BulletPooled(n)
           /\ bullets[n].damage = PlayerAttack /\ bullets[n].lifespanTimer > 0

\* a bullet spawned without direction is offered to the collision phase
C20_WitnessCollide ==
    /\ last.op = "collide" /\ last.nulls # {}
    /\ \E n \in last.nulls : n \in ActiveIds(activeBullets)

----------------------------------------------------------------------------
(* The power-ups of a running game (SpecPowerUp): the game is in its first  *)
(* wave; spawnPowerUp is called, collect(player) and destroy are called on  *)
(* a power-up, the player is hurt and updated, the timeouts of its effects  *)
(* elapse, and the collision and cleanup phases run.  `last' records the    *)
(* call just made, the power-up it was made on, the power-ups and the       *)
(* player before it, the power-ups the collision phase found live and       *)
(* overlapping the player, and the call made before this one.               *)

PowerUpIds == 1..NumPowerUps
\* what the player is hurt by: the collision damage of a shooter
PowerUpHurt == enemyTypes.shooter.collisionDamage

\* the variables hold the engine state w
StartsAs(w) ==
    /\ gameState = w.gameState /\ score = w.score
    /\ currentWave = w.currentWave
    /\ enemiesToSpawn = w.enemiesToSpawn
    /\ enemiesRemainingInWave = w.enemiesRemainingInWave
    /\ enemiesActive = w.enemiesActive
    /\ waveCooldownTimer = w.waveCooldownTimer
    /\ assetsLoaded = w.assetsLoaded
    /\ activeEnemies = w.activeEnemies
    /\ activeBullets = w.activeBullets
    /\ activePowerUps = w.activePowerUps
    /\ pools = w.pools /\ scene = w.scene
    /\ enemies = w.enemies /\ bullets = w.bullets
    /\ powerUps = w.powerUps /\ player = w.player
    /\ made = w.made /\ spawnTimers = w.spawnTimers
    /\ startPc = w.startPc

NoPowerUpCall ==
    [op |-> "new", ref |-> 0, pre |-> [n \in PowerUpIds |-> PowerUpNew],
     prePlayer |-> PlayerNew, touched |-> {}, prior |-> <<"new", 0>>]

InitPowerUp ==
    /\ weaponManager = NoWeaponManager
    /\ playerController = NoPlayerController
    /\ StartsAs(BulletWorld0)
    /\ last = NoPowerUpCall

PowerUpCall(op, ref) ==
    [NoPowerUpCall EXCEPT !.op = op, !.ref = ref, !.pre = powerUps,
                          !.prePlayer = player, !.prior = <<last.op, last.ref>>]

\* engine.spawnPowerUp(position), the type drawn among the keys of
\* powerUpTypes
PowerUpSpawnCall ==
    \E type \in powerUpTypeNames :
        /\ SetWorld(spawnPowerUp(World, type))
        /\ last' = PowerUpCall("spawn", 0)

\* powerUp.collect(player)
PowerUpCollectCall ==
    \E n \in PowerUpIds :
      \E r \in {PowerUp_collect(powerUps[n], player)} :
        /\ SetWorld([World EXCEPT !.powerUps[n] = r.p, !.player = r.pl])
        /\ last' = PowerUpCall("collect", n)

\* powerUp.destroy()
PowerUpDestroyCall ==
    \E n \in PowerUpIds :
        /\ SetWorld([World EXCEPT !.powerUps[n] = PowerUp_destroy(@)])
        /\ last' = PowerUpCall("destroy", n)

\* player.takeDamage(amount)
PowerUpPlayerHurt ==
    /\ SetWorld(playerTakeDamage(World, PowerUpHurt))
    /\ last' = PowerUpCall("hurt", 0)

\* player.updateTimers(dt) over the whole invincibility window
PowerUpPlayerTimers ==
    /\ player.isInvincible
    /\ SetWorld([World EXCEPT !.player = Player_updateTimers(@, PlayerInvincibilityDuration)])
    /\ last' = PowerUpCall("timers", 0)

\* the timeout of an effect elapses
PowerUpTimeout ==
    \E type \in player.activePowerUps :
        /\ SetWorld([World EXCEPT !.player = Player_powerUpTimeout(@, type)])
        /\ last' = PowerUpCall("timeout", 0)

\* handleCollisions, the player's box intersecting some active power-ups
PowerUpCollisionPass ==
    \E touchP \in SUBSET ActiveIds(activePowerUps) :
      \E c \in {handleCollisions(World, [NoInput EXCEPT !.touchP = touchP])} :
        /\ touchP # {}
        /\ SetWorld(c.w)
        /\ last' = [PowerUpCall("collide", 0) EXCEPT
                      !.touched = {k \in touchP : ~powerUps[k].destroyed}]

\* cleanupEntities
PowerUpCleanupPass ==
    \E k \in {cleanupEntities(World, NoInput)} :
        /\ SetWorld(k)
        /\ last' = PowerUpCall("cleanup", 0)

NextPowerUp ==
    \/ PowerUpSpawnCall
    \/ PowerUpCollectCall
    \/ PowerUpDestroyCall
    \/ PowerUpPlayerHurt
    \/ PowerUpPlayerTimers
    \/ PowerUpTimeout
    \/ PowerUpCollisionPass
    \/ PowerUpCleanupPass

SpecPowerUp == InitPowerUp /\ [][NextPowerUp]_vars

(* C21: collect(player) on a power-up that is already destroyed (by an       *)
(* earlier collect or by destroy) changes neither the player nor the        *)
(* power-up, whatever its type: the state after collect;collect is the      *)
(* state after one collect.                                                 *)
C21_CollectIsIdempotent ==
    (last.op = "collect" /\ last.pre[last.ref].destroyed)
        => /\ player = last.prePlayer
           /\ powerUps[last.ref] = last.pre[last.ref]

\* the second of two collect calls in a row on a heal power-up, the first of
\* which healed a hurt player who is still below full health
C21_Witness ==
    /\ last.op = "collect" /\ last.prior = <<"collect", last.ref>>
    /\ last.pre[last.ref].destroyed
    /\ powerUps[last.ref].type = "heal"
    /\ ~player.destroyed /\ player.health < player.maxHealth
    /\ player.health > PowerUpHealAmount

\* the player carries the effect of a power-up of the type
HasEffect(type, before, after) ==
    CASE type = "heal" -> after.health = Min(before.maxHealth, before.health + PowerUpHealAmount)
      [] type = "speed" -> /\ after.speedMultiplier >= PowerUpSpeedMultiplier
                           /\ "speed" \in after.activePowerUps
      [] type = "shield" -> after.isShielded /\ "shield" \in after.activePowerUps
      [] OTHER -> TRUE

(* C22: when the collision phase finds the player's box overlapping a        *)
(* non-destroyed active power-up, the power-up's effect is applied to the   *)
(* player according to its type and the power-up is destroyed.              *)
C22_CollisionAppliesEffect ==
    last.op = "collide"
        => \A k \in last.touched :
               /\ powerUps[k].destroyed
               /\ ~last.prePlayer.destroyed
                      => HasEffect(last.pre[k].type, last.prePlayer, player)

----------------------------------------------------------------------------
(* One WeaponManager in a running game (SpecWeapon).  The manager is built  *)
(* over a table of default weapons, which is data: the model starts it from *)
(* each prefix of defaultWeapons (none, the pistol, the pistol and the      *)
(* rifle).  Its methods are then called in any order, fire() asking the     *)
(* engine for a bullet.  `last' records the call just made (method, value   *)
(* returned, the manager before it, the spawnBullet calls it made, for      *)
(* equipWeapon whether the id was registered),                              *)
(* the number of successful fires, and since the last successful fire: the  *)
(* update time accumulated (up to MaxCooldown), the cooldown of the weapon  *)
(* that fired and whether the equipped id has stayed the same; for a        *)
(* successful fire the same three values as they were before it (gap..);    *)
(* for a switch that follows a switch, that switch and the id equipped      *)
(* before it; and the                                                       *)
(* number of switchToNextWeapon calls made in a row with the id equipped    *)
(* before the first of them.                                                *)

\* a weapon picked up in the arena: little ammo, so that it runs out
shotgunConfig == [damage |-> 20, cooldown |-> 200, ammoMax |-> 2, ammoCurrent |-> 1]

\* the addWeapon calls of the model
WeaponPickups ==
    { defaultWeapons[1], defaultWeapons[2], [id |-> "shotgun", config |-> shotgunConfig] }

\* the ids equipWeapon is called with, `laser' being registered nowhere
WeaponEquipIds == {x.id : x \in WeaponPickups} \cup {"laser"}

WeaponDts == {100, 200}
MaxCooldown == 300
StreakCap == Cardinality(WeaponPickups) + 1

NoWeaponCall(wm) ==
    [op |-> "new", known |-> TRUE, ret |-> FALSE, pre |-> wm, spawn |-> <<>>,
     shots |-> 0, hadFired |-> FALSE, since |-> 0, firedCooldown |-> 0,
     sameSince |-> TRUE,
     gapValid |-> FALSE, gap |-> 0, gapCooldown |-> 0, gapSame |-> TRUE,
     priorOp |-> "other", priorEquipped |-> NoWeapon,
     streak |-> 0, streakStart |-> NoWeapon]

InitWeapon ==
    /\ StartsAs(BulletWorld0)
    /\ playerController = NoPlayerController
    /\ weaponManager \in {WeaponManagerNew(SubSeq(defaultWeapons, 1, k)) :
                              k \in 0..Len(defaultWeapons)}
    /\ last = NoWeaponCall(weaponManager)

Switches == {"next", "previous"}

\* the record of a call of the method op that leaves the manager wm1; the
\* call before it is remembered when it was a switch of weapon
WeaponCall(op, wm1) ==
    [NoWeaponCall(weaponManager) EXCEPT
        !.op = op, !.shots = last.shots, !.hadFired = last.hadFired,
        !.since = last.since, !.firedCooldown = last.firedCooldown,
        !.sameSince = /\ last.sameSince
                      /\ wm1.equippedWeaponId = weaponManager.equippedWeaponId,
        !.priorOp = IF op \in Switches /\ last.op \in Switches THEN last.op ELSE "other",
        !.priorEquipped = IF op \in Switches /\ last.op \in Switches
                          THEN last.pre.equippedWeaponId ELSE NoWeapon,
        !.streak = IF op = "next" THEN Min(last.streak + 1, StreakCap) ELSE 0,
        !.streakStart = IF op # "next" THEN NoWeapon
                        ELSE IF last.streak > 0 THEN last.streakStart
                        ELSE weaponManager.equippedWeaponId]

\* addWeapon(id, config)
WeaponAddCall ==
    \E x \in WeaponPickups :
      \E wm1 \in {WeaponManager_addWeapon(weaponManager, x.id, x.config)} :
        /\ weaponManager' = wm1
        /\ SetEngine(World)
        /\ last' = WeaponCall("add", wm1)

\* equipWeapon(id)
WeaponEquipCall ==
    \E id \in WeaponEquipIds :
      \E r \in {WeaponManager_equipWeapon(weaponManager, id)} :
        /\ weaponManager' = r.wm
        /\ SetEngine(World)
        /\ last' = [WeaponCall("equip", r.wm) EXCEPT
                      !.ret = r.ret, !.known = WeaponManager_has(weaponManager, id)]

\* update(dt)
WeaponUpdateCall ==
    \E dt \in WeaponDts :
      \E wm1 \in {WeaponManager_update(weaponManager, dt)} :
        /\ weaponManager' = wm1
        /\ SetEngine(World)
        /\ last' = [WeaponCall("update", wm1) EXCEPT
                      !.since = Min(last.since + dt, MaxCooldown)]

RECURSIVE spawnRequested(_, _)
\* the engine after the spawnBullet calls of a fire()
spawnRequested(w, spawn) ==
    IF spawn = <<>> THEN w
    ELSE spawnRequested(spawnBullet(w, TRUE, Head(spawn).damage, Head(spawn).isPlayerBullet),
                        Tail(spawn))

\* fire()
WeaponFireCall ==
    /\ last.shots < MaxShots
    /\ \E r \in {WeaponManager_fire(weaponManager)} :
        /\ weaponManager' = r.wm
        /\ SetEngine(spawnRequested(World, r.spawn))
        /\ last' = IF r.ret
                   THEN [WeaponCall("fire", r.wm) EXCEPT
                           !.ret = TRUE, !.spawn = r.spawn, !.shots = @ + 1,
                           !.hadFired = TRUE, !.since = 0,
                           !.firedCooldown = r.wm.fireTimer, !.sameSince = TRUE,
                           !.gapValid = last.hadFired, !.gap = last.since,
                           !.gapCooldown = last.firedCooldown,
                           !.gapSame = last.sameSince]
                   ELSE [WeaponCall("fire", r.wm) EXCEPT !.spawn = r.spawn]

\* switchToNextWeapon()
WeaponNextCall ==
    \E wm1 \in {WeaponManager_switchToNextWeapon(weaponManager)} :
        /\ weaponManager' = wm1
        /\ SetEngine(World)
        /\ last' = WeaponCall("next", wm1)

\* switchToPreviousWeapon()
WeaponPreviousCall ==
    \E wm1 \in {WeaponManager_switchToPreviousWeapon(weaponManager)} :
        /\ weaponManager' = wm1
        /\ SetEngine(World)
        /\ last' = WeaponCall("previous", wm1)

NextWeapon ==
    \/ WeaponAddCall
    \/ WeaponEquipCall
    \/ WeaponUpdateCall
    \/ WeaponFireCall
    \/ WeaponNextCall
    \/ WeaponPreviousCall

SpecWeapon == InitWeapon /\ [][NextWeapon]_vars

Finite(entry) == entry.ammoCurrent # Infinity
Registered(wm) == DOMAIN wm.entry

(* C23: with the same weapon equipped throughout, two successful fire()      *)
(* calls are separated by update(dt) calls accumulating at least that       *)
(* weapon's cooldown, which is positive: fire() calls with no update in     *)
(* between give at most one successful fire.                                *)
C23_SameWeaponCooldown ==
    (last.op = "fire" /\ last.ret /\ last.gapValid /\ last.gapSame)
        => /\ last.gapCooldown > 0
           /\ last.gap >= last.gapCooldown

\* the pistol fires again exactly when its 0.3 s have been accumulated
C23_Witness ==
    /\ last.op = "fire" /\ last.ret /\ last.gapValid /\ last.gapSame
    /\ last.gapCooldown = MaxCooldown /\ last.gap = last.gapCooldown

(* C24: after a successful fire(), no fire() succeeds until update(dt) has   *)
(* accumulated at least the cooldown of the weapon that fired, whatever     *)
(* switches of weapon happen in between.                                    *)
C24_SwitchCannotFireSooner ==
    (last.op = "fire" /\ last.ret /\ last.gapValid)
        => last.gap >= last.gapCooldown

(* C25: every registered weapon with finite ammo has 0 <= ammoCurrent <=     *)
(* ammoMax; a weapon with infinite ammo keeps it; a successful fire takes   *)
(* exactly 1 from the ammo of the equipped weapon, if finite, and changes   *)
(* no other weapon's ammo.                                                  *)
C25_AmmoWithinBounds ==
    /\ \A id \in Registered(weaponManager) :
           Finite(weaponManager.entry[id])
               => /\ 0 <= weaponManager.entry[id].ammoCurrent
                  /\ weaponManager.entry[id].ammoCurrent <= weaponManager.entry[id].ammoMax
    /\ \A id \in Registered(last.pre) :
           ~Finite(last.pre.entry[id]) => ~Finite(weaponManager.entry[id])
    /\ (last.op = "fire" /\ last.ret)
           => \A id \in Registered(weaponManager) :
                  weaponManager.entry[id].ammoCurrent =
                      IF id = last.pre.currentWeapon /\ Finite(last.pre.entry[id])
                      THEN last.pre.entry[id].ammoCurrent - 1
                      ELSE last.pre.entry[id].ammoCurrent

\* the shot that takes the last round of a weapon, with another finite weapon
\* registered
C25_Witness ==
    /\ last.op = "fire" /\ last.ret
    /\ weaponManager.entry[weaponManager.currentWeapon].ammoCurrent = 0
    /\ \E id \in Registered(weaponManager) :
           id # weaponManager.currentWeapon /\ Finite(weaponManager.entry[id])

\* the conditions under which the spec lets fire() fail
MustFail(wm) ==
    \/ wm.currentWeapon = NoWeapon
    \/ wm.fireTimer > 0
    \/ Finite(wm.entry[wm.currentWeapon]) /\ wm.entry[wm.currentWeapon].ammoCurrent = 0

(* C26: fire() returns false exactly when no weapon is equipped, the         *)
(* cooldown timer is positive or the equipped weapon has finite ammo 0; a   *)
(* failed fire() changes neither fireTimer nor any ammo and asks for no     *)
(* bullet, a successful one asks for exactly one player bullet.             *)
C26_FireFailsExactlyWhen ==
    last.op = "fire"
        => /\ ~last.ret <=> MustFail(last.pre)
           /\ ~last.ret => /\ weaponManager.fireTimer = last.pre.fireTimer
                           /\ weaponManager.entry = last.pre.entry
                           /\ last.spawn = <<>>
           /\ last.ret => /\ Len(last.spawn) = 1
                          /\ last.spawn[1].isPlayerBullet

\* a fire() that fails for want of ammo alone
C26_Witness ==
    /\ last.op = "fire" /\ ~last.ret
    /\ last.pre.currentWeapon # NoWeapon /\ last.pre.fireTimer <= 0
    /\ last.pre.entry[last.pre.currentWeapon].ammoCurrent = 0

\* the id after id in the insertion order of wm, wrapping
NextId(wm, id) == wm.ids[((IndexOf(wm.ids, id) + 1) % Len(wm.ids)) + 1]

(* C27: with N >= 2 weapons switchToNextWeapon equips the next id in         *)
(* insertion order, wrapping; switchToPreviousWeapon undoes it and is       *)
(* undone by it; N switchToNextWeapon calls in a row come back to the       *)
(* weapon they started from; with at most one weapon both leave the         *)
(* equipped id and the cooldown timer as they are.                          *)
C27_SwitchCycles ==
    /\ (last.op = "next" /\ Len(last.pre.ids) >= 2)
           => weaponManager.equippedWeaponId = NextId(last.pre, last.pre.equippedWeaponId)
    /\ (last.op = "previous" /\ Len(last.pre.ids) >= 2)
           => NextId(weaponManager, weaponManager.equippedWeaponId)
                  = last.pre.equippedWeaponId
    /\ (last.op \in Switches /\ last.priorOp \in Switches /\ last.priorOp # last.op
            /\ Len(last.pre.ids) >= 2)
           => weaponManager.equippedWeaponId = last.priorEquipped
    /\ (last.op = "next" /\ Len(last.pre.ids) >= 2 /\ last.streak = Len(last.pre.ids))
           => weaponManager.equippedWeaponId = last.streakStart
    /\ (last.op \in Switches /\ Len(last.pre.ids) <= 1)
           => /\ weaponManager.equippedWeaponId = last.pre.equippedWeaponId
              /\ weaponManager.fireTimer = last.pre.fireTimer

\* the third switchToNextWeapon in a row over three weapons, from the last
\* weapon to the first
C27_Witness ==
    /\ last.op = "next" /\ Len(weaponManager.ids) = 3 /\ last.streak = 3
    /\ last.pre.equippedWeaponId = weaponManager.ids[3]
    /\ weaponManager.equippedWeaponId = weaponManager.ids[1]

\* a switch with one weapon registered and the cooldown running
C27_WitnessSingle ==
    /\ last.op \in Switches /\ Len(weaponManager.ids) = 1
    /\ weaponManager.fireTimer > 0

(* C28: whenever the registry is non-empty, equippedWeaponId is one of its   *)
(* keys and currentWeapon is the entry stored under that key.               *)
C28_ExactlyOneEquipped ==
    weaponManager.ids # <<>>
        => /\ weaponManager.equippedWeaponId \in Registered(weaponManager)
           /\ weaponManager.currentWeapon = weaponManager.equippedWeaponId

\* equipWeapon called with an id that is not registered
C28_Witness ==
    /\ last.op = "equip" /\ ~last.known /\ ~last.ret
    /\ weaponManager.ids # <<>>
    /\ weaponManager.equippedWeaponId \in Registered(weaponManager)

----------------------------------------------------------------------------
(* The pool interface on its own (SpecPool): a caller that holds every      *)
(* constructed instance releases instances it holds into a pool and         *)
(* acquires from a pool, by any pool name.  `last' records the call just    *)
(* made and the current run of releases followed by acquires on one pool:   *)
(* the instances released, the instances acquired since, and the length of  *)
(* the free-list before the first release of the run.                       *)

\* a name that is no key of this.pools
UnregisteredPool == "effects"

NoRun == [pool |-> "none", released |-> <<>>, acquired |-> <<>>, len0 |-> 0]

InPools(w, ref) == \E p \in DOMAIN w.pools : ref \in SeqToSet(w.pools[p])

InitPool ==
    /\ weaponManager = NoWeaponManager
    /\ playerController = NoPlayerController
    /\ gameState = TITLE /\ score = 0 /\ currentWave = 0 /\ enemiesToSpawn = 0
    /\ enemiesRemainingInWave = 0 /\ enemiesActive = 0 /\ waveCooldownTimer = 0
    /\ assetsLoaded = FALSE
    /\ activeEnemies = <<>> /\ activeBullets = <<>> /\ activePowerUps = <<>>
    /\ pools = EngineNew.pools /\ scene = {}
    /\ enemies = EngineNew.enemies /\ bullets = EngineNew.bullets
    /\ powerUps = EngineNew.powerUps
    /\ player = NoPlayer
    /\ made = [enemy |-> NumEnemies, bullet |-> NumBullets, powerUp |-> NumPowerUps]
    /\ spawnTimers = <<>> /\ startPc = "new"
    /\ last = [op |-> "new", pool |-> "none", ret |-> Null, fault |-> FALSE,
               wasEmpty |-> FALSE, same |-> TRUE, run |-> NoRun]

PoolReturnCall ==
    \E ref \in AllRefs, p \in PoolNames \cup {UnregisteredPool} :
        /\ ~InPools(World, ref)
        /\ SetWorld(returnObjectToPool(World, ref, p))
        /\ last' = [op |-> "return", pool |-> p, ret |-> Null, fault |-> FALSE,
                    wasEmpty |-> FALSE, same |-> FALSE,
                    run |-> IF p \notin PoolNames THEN NoRun
                            ELSE IF /\ last.run.pool = p
                                    /\ last.run.acquired = <<>>
                                    /\ ref \notin SeqToSet(last.run.released)
                                    /\ Len(last.run.released) < MaxRoundTrip
                            THEN [last.run EXCEPT !.released = Append(@, ref)]
                            ELSE [pool |-> p, released |-> <<ref>>, acquired |-> <<>>,
                                  len0 |-> Len(pools[p])]]

PoolGetCall ==
    \E p \in PoolNames \cup {UnregisteredPool} :
        LET r == getObjectFromPool(World, p)
        IN  /\ SetWorld(r.w)
            /\ last' = [op |-> "get", pool |-> p, ret |-> r.ret, fault |-> r.fault,
                        wasEmpty |-> (p \in PoolNames /\ pools[p] = <<>>),
                        same |-> (r.w = World),
                        run |-> IF /\ last.run.pool = p
                                   /\ Len(last.run.acquired) < Len(last.run.released)
                                THEN [last.run EXCEPT !.acquired = Append(@, r.ret)]
                                ELSE NoRun]

NextPool == PoolReturnCall \/ PoolGetCall

SpecPool == InitPool /\ [][NextPool]_vars

\* N releases have been followed by N acquires on the same pool
RunComplete ==
    /\ last.run.pool \in PoolNames
    /\ Len(last.run.released) > 0
    /\ Len(last.run.acquired) = Len(last.run.released)

(* C3: releasing N distinct instances into a pool and then acquiring N      *)
(* times from it returns those N instances, last released first, and the    *)
(* free-list is as long afterwards as it was before the releases.           *)
C3_RoundTripIsLifo ==
    RunComplete =>
        /\ last.run.acquired = Reverse(last.run.released)
        /\ Len(pools[last.run.pool]) = last.run.len0

\* a round trip of at least two instances on a pool that was not empty
C3_Witness ==
    /\ RunComplete
    /\ Len(last.run.released) >= 2
    /\ last.run.len0 > 0
    /\ last.run.acquired = Reverse(last.run.released)

(* C4: getObjectFromPool on a registered pool whose free-list is empty      *)
(* returns a newly constructed instance.                                    *)
C4_EmptyPoolConstructs ==
    (last.op = "get" /\ last.pool \in PoolNames /\ last.wasEmpty)
        => last.ret # Null

(* C5: getObjectFromPool with a pool id that is not registered returns null *)
(* without faulting and changes nothing.                                    *)
C5_UnknownPoolReturnsNull ==
    (last.op = "get" /\ last.pool \notin PoolNames)
        => /\ last.ret = Null
           /\ ~last.fault
           /\ last.same

----------------------------------------------------------------------------
(* The waves and their spawn timers (SpecWave).  The engine runs with a     *)
(* pool of WaveEnemies enemies, filled before the game was started from the *)
(* restart button; the player stays out of reach of the enemies and does    *)
(* not shoot, every frame lasts WaveDt, and the entry points are gameLoop,  *)
(* the callbacks of the spawn timers and the pause key.  Timers are not     *)
(* ordered in time against frames.  `last' records the entry point that     *)
(* ran, the place in spawnTimers of the timer the current wave started      *)
(* (own, 0 once it is cleared), whether that timer was cleared with its     *)
(* whole count made (done), and the enemies spawned since the current wave  *)
(* started (spawned).                                                       *)

\* enemies in the pool
WaveEnemies == 9
\* spawn timers alive at the same time
WaveTimers == MaxTimers + 1
\* the frame time: one frame runs out the cooldown of a wave transition
WaveDt == waveCooldownDuration

\* returnObjectToPool(new X(engine), pool) for the instances n..count of a kind
RECURSIVE fillPool(_, _, _, _)
fillPool(w, kind, n, count) ==
    IF n > count THEN w
    ELSE fillPool(returnObjectToPool([w EXCEPT !.made[kind] = n], <<kind, n>>,
                                     PoolOfKind(kind)),
                  kind, n + 1, count)

\* the engine after start() and a click on restart, with the pools filled
\* before the start
WaveWorld0 ==
    LET e0 == [EngineNew EXCEPT !.enemies = [n \in 1..WaveEnemies |-> EnemyNew]]
        w0 == preallocate(preallocate(fillPool(e0, "enemy", 1, WaveEnemies),
                                      "bullet", 1), "powerUp", 1)
        w1 == [createPlayer(w0) EXCEPT !.startPc = "running"]
    IN  transitionToGame(w1)

\* the switch of gameLoop on the game state
gameLoop(w, in) ==
    IF w.gameState = PLAYING
    THEN updateGameState(
             cleanupEntities(handleCollisions(updateEntities(w, in, FALSE), in).w, in),
             in.dt)
    ELSE IF w.gameState = WAVE_TRANSITION
    THEN updateGameState(cleanupEntities(updateEntities(w, in, TRUE), in), in.dt)
    ELSE w

InitWave ==
    /\ weaponManager = NoWeaponManager
    /\ playerController = NoPlayerController
    /\ StartsAs(WaveWorld0)
    /\ last = [op |-> "new", own |-> 0, done |-> FALSE, spawned |-> 0]

WaveTick ==
    \E g \in {gameLoop(World, [NoInput EXCEPT !.dt = WaveDt])} :
        /\ g.currentWave <= MaxWave
        /\ Len(g.spawnTimers) <= WaveTimers
        /\ SetWorld(g)
        /\ last' = IF g.currentWave # currentWave
                   THEN [op |-> "tick", own |-> Len(g.spawnTimers), done |-> FALSE,
                         spawned |-> 0]
                   ELSE [last EXCEPT !.op = "tick"]

WaveSpawnTimerFire ==
    \E i \in 1..Len(spawnTimers) :
    \E g \in {spawnTimerCallback(World, i, 0, 1500, 0)} :
        /\ SetWorld(g)
        /\ last' = IF Len(g.spawnTimers) < Len(spawnTimers)
                   THEN [last EXCEPT
                            !.op = "cleared",
                            !.own = IF i = @ THEN 0 ELSE IF i < @ THEN @ - 1 ELSE @,
                            !.done = IF i = last.own
                                     THEN spawnTimers[i] >= enemiesToSpawn ELSE @]
                   ELSE [last EXCEPT
                            !.op = "spawn",
                            !.spawned = @ + Len(g.activeEnemies) - Len(activeEnemies)]

WaveKeyP ==
    /\ gameState \in {PLAYING, PAUSED}
    /\ SetWorld(togglePause(World))
    /\ last' = [last EXCEPT !.op = "pause"]

NextWave == WaveTick \/ WaveSpawnTimerFire \/ WaveKeyP

SpecWave == InitWave /\ [][NextWave]_vars

(* C31: while wave N is played, the spawn timer that startNextWave created  *)
(* for it stays scheduled until it has made calculateEnemiesForWave(N)      *)
(* spawn requests, and it makes no more than that; a pause followed by a    *)
(* resume does not end the spawning of the wave.                            *)
C31_SpawningContinuesToQuota ==
    (gameState = PLAYING /\ currentWave >= 1)
        => /\ last.own = 0 => last.done
           /\ last.own # 0
                  => spawnTimers[last.own] <= calculateEnemiesForWave(currentWave)

(* C38: the number of enemies spawned while wave N is the current wave      *)
(* never exceeds calculateEnemiesForWave(N).                                *)
C38_SpawnsWithinQuota ==
    currentWave >= 1 => last.spawned <= calculateEnemiesForWave(currentWave)

----------------------------------------------------------------------------
(* The collision pass with several enemies in reach of one bullet           *)
(* (SpecCollide).  The engine runs wave 1 with CollideEnemies enemies       *)
(* pooled before the start, both spawned, and the player's first bullet in  *)
(* flight; the entry points are gameLoop and the callbacks of the spawn     *)
(* timers.  `last' records the entry point that ran and the takeDamage      *)
(* calls its collision pass made on enemies (log).                          *)

\* enemies in the pool
CollideEnemies == 2

RECURSIVE spawnAll(_, _)
\* the spawn timer of the wave elapses n times
spawnAll(w, n) ==
    IF n = 0 THEN w ELSE spawnAll(spawnTimerCallback(w, 1, 0, 1500, 0), n - 1)

\* the engine after start(), a click on restart, the cooldown, the spawns of
\* wave 1 and the player's first shot
CollideWorld0 ==
    LET e0 == [EngineNew EXCEPT !.enemies = [n \in 1..CollideEnemies |-> EnemyNew]]
        w0 == preallocate(preallocate(fillPool(e0, "enemy", 1, CollideEnemies),
                                      "bullet", 1), "powerUp", 1)
        w1 == [createPlayer(w0) EXCEPT !.startPc = "running"]
        w2 == startNextWave([transitionToGame(w1) EXCEPT !.waveCooldownTimer = 0])
    IN  spawnBullet(spawnAll(w2, CollideEnemies), TRUE, PlayerAttack, TRUE)

InitCollide ==
    /\ weaponManager = NoWeaponManager
    /\ playerController = NoPlayerController
    /\ StartsAs(CollideWorld0)
    /\ last = [op |-> "new", log |-> {}]

\* gameLoop in Playing
CollideTick ==
    /\ gameState = PLAYING
    /\ \E dt \in EngineDts, shoot \in BOOLEAN :
       \E u \in {updateEntities(World, [NoInput EXCEPT !.dt = dt, !.shoot = shoot],
                                FALSE)} :
       \E hits \in SUBSET (PlayerBulletsIn(u) \X HittableEnemiesIn(u)) :
       \E in \in {[NoInput EXCEPT !.dt = dt, !.hits = hits]} :
       \E c \in {handleCollisions(u, in)} :
       \E g \in {updateGameState(cleanupEntities(c.w, in), dt)} :
           /\ SetWorld(g)
           /\ last' = [op |-> "tick", log |-> c.log]

\* gameLoop in the other states
CollideIdleTick ==
    /\ gameState # PLAYING
    /\ \E g \in {gameLoop(World, [NoInput EXCEPT !.dt = WaveDt])} :
           /\ g.currentWave <= MaxWave
           /\ Len(g.spawnTimers) <= WaveTimers
           /\ SetWorld(g)
           /\ last' = [op |-> "idle", log |-> {}]

CollideSpawnTimerFire ==
    \E i \in 1..Len(spawnTimers) :
        /\ spawnTimers[i] < MaxSpawned + CollideEnemies \/ gameState # PLAYING
        /\ SetWorld(spawnTimerCallback(World, i, 0, 1500, 0))
        /\ last' = [op |-> "spawn", log |-> {}]

NextCollide == CollideTick \/ CollideIdleTick \/ CollideSpawnTimerFire

SpecCollide == InitCollide /\ [][NextCollide]_vars

\* the enemies that bullet b damaged in the collision pass that just ran
DamagedBy(b) == {ev.enemy : ev \in {x \in last.log : x.bullet = b /\ x.dealt > 0}}

(* C39: a player bullet applies damage to at most one enemy: in a            *)
(* collision pass no bullet causes a takeDamage call on a second enemy      *)
(* after the hit that marked it destroyed.                                  *)
C39_BulletHitsOneEnemy ==
    \A b \in DOMAIN bullets :
        /\ Cardinality(DamagedBy(b)) <= 1
        /\ Cardinality({ev.enemy : ev \in {x \in last.log : x.bullet = b}}) <= 1

----------------------------------------------------------------------------
(* The wave formulas called on their own (SpecFormula): the quota and the   *)
(* spawn interval of a wave, and the weighted draw of an enemy type, for    *)
(* the waves 1..MaxWaveArg and every draw of Math.random() in percent.      *)
(* `last' records the one call of a run and what it returned; for the quota *)
(* and the interval also the value for the wave after.                      *)

\* the largest wave number the formulas are called with
MaxWaveArg == 30

NoFormulaCall ==
    [op |-> "new", wave |-> 0, rand |-> 0, type |-> "none",
     count |-> 0, countNext |-> 0, interval |-> 0, intervalNext |-> 0]

InitFormula ==
    /\ weaponManager = NoWeaponManager
    /\ playerController = NoPlayerController
    /\ StartsAs(EngineNew)
    /\ last = NoFormulaCall

\* calculateEnemiesForWave(wave) and the spawnInterval of startNextWave
QuotaCall ==
    \E wave \in 1..MaxWaveArg :
        /\ last.op = "new"
        /\ SetWorld(World)
        /\ last' = [NoFormulaCall EXCEPT
                       !.op = "quota", !.wave = wave,
                       !.count = calculateEnemiesForWave(wave),
                       !.countNext = calculateEnemiesForWave(wave + 1),
                       !.interval = spawnInterval(wave),
                       !.intervalNext = spawnInterval(wave + 1)]

\* getRandomEnemyTypeByWaveNumber(wave) with Math.random() = rand / 100
DrawCall ==
    \E wave \in 1..MaxWaveArg, rand \in 0..99 :
        /\ last.op = "new"
        /\ SetWorld(World)
        /\ last' = [NoFormulaCall EXCEPT
                       !.op = "draw", !.wave = wave, !.rand = rand,
                       !.type = getRandomEnemyTypeByWaveNumber(wave, rand)]

NextFormula == QuotaCall \/ DrawCall

SpecFormula == InitFormula /\ [][NextFormula]_vars

(* C33: calculateEnemiesForWave(w) is floor(5 + 1.5 w) for every w >= 1 (6   *)
(* for w = 1, 12 for w = 5) and does not decrease with w; the spawn         *)
(* interval is max(200, 1500 - 50 w), does not increase with w and is never *)
(* below 200 ms.                                                            *)
C33_QuotaAndInterval ==
    last.op = "quota"
        => /\ 2 * last.count <= 10 + 3 * last.wave
           /\ 10 + 3 * last.wave < 2 * last.count + 2
           /\ last.wave = 1 => last.count = 6
           /\ last.wave = 5 => last.count = 12
           /\ last.count <= last.countNext
           /\ last.interval >= 200
           /\ last.interval >= 1500 - 50 * last.wave
           /\ last.interval \in {200, 1500 - 50 * last.wave}
           /\ last.intervalNext <= last.interval

\* the quota of wave 5, and a wave at which the interval has reached its floor
C33_Witness ==
    /\ last.op = "quota"
    /\ \/ last.wave = 5 /\ last.count = 12 /\ last.interval = 1250
       \/ last.wave = MaxWaveArg /\ last.interval = 200 /\ last.intervalNext = 200

(* C34: getRandomEnemyTypeByWaveNumber(w) returns basic, fast, tank or       *)
(* shooter; never fast when w < 2, tank when w < 3 or shooter when w < 5;   *)
(* and never a type whose weight is 0 at wave w.                            *)
C34_DrawRespectsThresholds ==
    last.op = "draw"
        => /\ last.type \in {"basic", "fast", "tank", "shooter"}
           /\ last.type = "fast" => last.wave >= 2
           /\ last.type = "tank" => last.wave >= 3
           /\ last.type = "shooter" => last.wave >= 5
           /\ ChanceOf(last.type, last.wave) > 0

\* the last percent of the draw at a wave where basic has weight 0, and a
\* shooter drawn at the first wave that has one
C34_Witness ==
    /\ last.op = "draw"
    /\ \/ last.wave >= 13 /\ last.rand = 99 /\ last.type = "shooter"
       \/ last.wave = 5 /\ last.type = "shooter"

----------------------------------------------------------------------------
(* PlayerController (src/unnamed/part_000).  The controller is the record   *)
(*   hasBody    physics.getBody(player) returns a body                      *)
(*   canJump    the grounded latch                                          *)
(*   velocityY  playerBody.velocity.y                                       *)
(*   playerVy   player.velocity.y, the copy update() keeps in sync          *)
(* The look rotation, the horizontal impulse and the speed clamp of         *)
(* update() write the body's quaternion and velocity.x and .z only and are  *)
(* left out.  A contact is [ny, biIsTarget]: the y component of contact.ni  *)
(* in tenths, and whether contact.bi is the player's body.                  *)

jumpForce == 15

\* the weapons of the table with automatic: true
automaticWeapons == {"rifle"}

PlayerControllerNew(hasBody) ==
    [ hasBody |-> hasBody, canJump |-> TRUE, velocityY |-> 0, playerVy |-> 0 ]

\* contactNormal.dot(upAxis), in tenths
ContactUp(contact) == IF contact.biIsTarget THEN 0 - contact.ny ELSE contact.ny

\* some contact of the event has a normal more than 0.5 upwards
TouchingGround(contacts) ==
    \E k \in 1..Len(contacts) : ContactUp(contacts[k]) > 5

PlayerController_handleCollision(c, contacts) ==
    IF TouchingGround(contacts) THEN [c EXCEPT !.canJump = TRUE] ELSE c

WeaponManager_canAutoFire(wm) ==
    wm.currentWeapon # NoWeapon /\ wm.currentWeapon \in automaticWeapons

\* the weapon part of update(): shooting, then switching
PlayerController_weapons(wm, in) ==
    LET f == IF in.shootPressed \/ (in.shoot /\ WeaponManager_canAutoFire(wm))
             THEN WeaponManager_fire(wm)
             ELSE [wm |-> wm, ret |-> FALSE, spawn |-> <<>>]
        w1 == IF in.switchWeaponNext THEN WeaponManager_switchToNextWeapon(f.wm)
              ELSE f.wm
        w2 == IF in.switchWeaponPrev THEN WeaponManager_switchToPreviousWeapon(w1)
              ELSE w1
    IN  [wm |-> w2, spawn |-> f.spawn, fired |-> f.ret]

\* update that leaves the latch set when it jumps
PlayerController_update_KeepsLatch(c, pl, wm, in) ==
    IF ~HasPlayer(pl) \/ pl.destroyed \/ ~c.hasBody
    THEN [c |-> c, wm |-> wm, spawn |-> <<>>, jumped |-> FALSE, fired |-> FALSE]
    ELSE LET jumps == in.jump /\ c.canJump
             c1 == IF jumps THEN [c EXCEPT !.velocityY = jumpForce] ELSE c
             r == PlayerController_weapons(wm, in)
         IN  [c |-> [c1 EXCEPT !.playerVy = c1.velocityY], wm |-> r.wm,
              spawn |-> r.spawn, jumped |-> jumps, fired |-> r.fired]

\* returns the controller, the weapon manager, the engine.spawnBullet calls
\* made and whether the jump was performed
PlayerController_update(c, pl, wm, in) ==
    IF ~HasPlayer(pl) \/ pl.destroyed \/ ~c.hasBody
    THEN [c |-> c, wm |-> wm, spawn |-> <<>>, jumped |-> FALSE, fired |-> FALSE]
    ELSE LET jumps == in.jump /\ c.canJump
             c1 == IF jumps
                   THEN [c EXCEPT !.velocityY = jumpForce, !.canJump = FALSE] ELSE c
             r == PlayerController_weapons(wm, in)
         IN  [c |-> [c1 EXCEPT !.playerVy = c1.velocityY], wm |-> r.wm,
              spawn |-> r.spawn, jumped |-> jumps, fired |-> r.fired]

----------------------------------------------------------------------------
(* One PlayerController under its callers (SpecController): update(dt)      *)
(* with every combination of the jump, shoot and switch actions, the        *)
(* collide events of the player's body, and the physics step, which sets    *)
(* the body's vertical velocity.  The player is live or already dead, the   *)
(* body exists or not.  `last' records the call, the controller before it,  *)
(* whether a jump was asked for and performed, whether the contacts of a    *)
(* collide event qualify as ground, what has happened since the last jump   *)
(* (sinceJump: "none" before the first jump, "jumped", "contact" after a    *)
(* qualifying contact; priorSince is its value before the call) and the     *)
(* shots fired.                                                             *)

\* y components of contact normals, in tenths
ContactNormals == {-6, 5, 6}
\* contacts in one collide event
MaxContacts == 2
\* the body's vertical velocity after a physics step
StepVelocities == {-15, -5, 0, 10}

ControllerInputs ==
    [jump : BOOLEAN, shoot : BOOLEAN, shootPressed : BOOLEAN,
     switchWeaponNext : BOOLEAN, switchWeaponPrev : BOOLEAN]

Contacts == [ny : ContactNormals, biIsTarget : BOOLEAN]

ContactLists ==
    UNION {[1..k -> Contacts] : k \in 0..MaxContacts}

\* the engine in wave 1, and the same with the player dead
ControllerWorlds == {BulletWorld0, playerTakeDamage(BulletWorld0, PlayerMaxHealth)}

NoControllerCall(c) ==
    [op |-> "new", pre |-> c, jumpReq |-> FALSE, jumped |-> FALSE,
     qualifies |-> FALSE, sinceJump |-> "none", priorSince |-> "none", shots |-> 0]

InitController ==
    /\ \E w \in ControllerWorlds : StartsAs(w)
    /\ weaponManager = WeaponManagerNew(defaultWeapons)
    /\ playerController \in {PlayerControllerNew(b) : b \in BOOLEAN}
    /\ last = NoControllerCall(playerController)

\* update(dt)
ControllerUpdate ==
    \E in \in ControllerInputs :
    \E r \in {PlayerController_update(playerController, player, weaponManager, in)} :
        /\ last.shots < MaxShots \/ ~r.fired
        /\ playerController' = r.c
        /\ weaponManager' = r.wm
        /\ SetFields(spawnRequested(World, r.spawn))
        /\ last' = [last EXCEPT
                       !.op = "update", !.pre = playerController,
                       !.jumpReq = in.jump, !.jumped = r.jumped, !.qualifies = FALSE,
                       !.priorSince = last.sinceJump,
                       !.sinceJump = IF r.jumped THEN "jumped" ELSE @,
                       !.shots = IF r.fired THEN @ + 1 ELSE @]

\* the 'collide' event of the player's body; the listener exists only if
\* the body did when the controller was constructed
ControllerCollide ==
    /\ playerController.hasBody
    /\ \E contacts \in ContactLists :
         /\ playerController' = PlayerController_handleCollision(playerController, contacts)
         /\ weaponManager' = weaponManager
         /\ SetFields(World)
         /\ last' = [last EXCEPT
                        !.op = "collide", !.pre = playerController,
                        !.jumpReq = FALSE, !.jumped = FALSE,
                        !.qualifies = TouchingGround(contacts),
                        !.priorSince = last.sinceJump,
                        !.sinceJump = IF TouchingGround(contacts) /\ @ = "jumped"
                                      THEN "contact" ELSE @]

\* the physics world integrates the body
ControllerPhysicsStep ==
    /\ playerController.hasBody
    /\ \E v \in StepVelocities :
         /\ playerController' = [playerController EXCEPT !.velocityY = v]
         /\ weaponManager' = weaponManager
         /\ SetFields(World)
         /\ last' = [last EXCEPT
                        !.op = "step", !.pre = playerController,
                        !.jumpReq = FALSE, !.jumped = FALSE, !.qualifies = FALSE,
                        !.priorSince = last.sinceJump]

NextController == ControllerUpdate \/ ControllerCollide \/ ControllerPhysicsStep

SpecController == InitController /\ [][NextController]_vars

(* C35: canJump becomes false in the update in which a jump is performed     *)
(* and becomes true again only through handleCollision with a contact       *)
(* normal whose dot product with world-up exceeds 0.5; between two jumps    *)
(* there is a qualifying ground contact; and a jump request while canJump   *)
(* is false leaves the vertical velocity unchanged.                         *)
C35_JumpLatch ==
    /\ (last.op = "update" /\ last.jumped)
           => /\ last.pre.canJump /\ ~playerController.canJump
              /\ playerController.velocityY = jumpForce
              /\ last.priorSince # "jumped"
    /\ (~last.pre.canJump /\ playerController.canJump)
           => last.op = "collide" /\ last.qualifies
    /\ (last.op = "update" /\ last.jumpReq /\ ~last.pre.canJump)
           => /\ ~last.jumped
              /\ playerController.velocityY = last.pre.velocityY

\* a second jump, made after a ground contact followed the first
C35_Witness ==
    /\ last.op = "update" /\ last.jumped /\ last.priorSince = "contact"
    /\ ~playerController.canJump

\* a jump asked for in the air, the body falling
C35_WitnessAirborne ==
    /\ last.op = "update" /\ last.jumpReq /\ ~last.pre.canJump
    /\ playerController.velocityY < 0

====
